---- MODULE Spec2Model ----
(***************************************************************************)
(* Frame rendering and GPU synchronisation of minecrust.                   *)
(*                                                                         *)
(* Two renderers share the same frame loop structure:                      *)
(*   VulkanApp  (src/vulkan/app.rs)  transfer queue + graphics queue,      *)
(*                                   MAX_FRAMES_IN_FLIGHT = 5              *)
(*   VulkanBase (src/vulkan.rs)      graphics queue only,                  *)
(*                                   MAX_FRAMES_IN_FLIGHT = 2              *)
(* The variable renderer says which of the two a behaviour is about.       *)
(*                                                                         *)
(* One action is one call of draw_frame, up to its return or up to the     *)
(* device_wait_idle of recreate_swapchain, which is a second action.  The  *)
(* device is modelled by its two queues, which execute their submissions   *)
(* in submission order, each submission starting once the semaphores it    *)
(* waits on are signaled, and by the presentation engine, which hands out  *)
(* any image the application does not hold and signals the image-available *)
(* semaphore of an acquire once earlier presents of that image are done.   *)
(* Rust vectors are functions over 0..n-1.                                 *)
(***************************************************************************)
EXTENDS Integers, Sequences, FiniteSets, TLC

\* ------------------------------------------------------------------ bounds
MaxTicks == 6
MaxErrors == 1
MaxStale == 1
\* errors are reported, and the window is resized or the swapchain found
\* stale, only during the first so many calls of draw_frame
MaxFaultTicks == 2
\* calls of draw_frame followed after a recreation of the swapchain
MaxTicksAfterRecreate == 1
\* sides of the squares constructed, and transforms applied to one square
MaxSide == 2
MaxTransforms == 2
\* largest min_image_count a surface reports
MaxImageCount == 3
\* most formats a surface reports
MaxFormats == 2
\* iterations of the loop of VulkanBase::start, and events polled in one
MaxIterations == 3
MaxEvents == 2
\* entities of the world, and runs of AABBComponentSystem
MaxEntities == 2
MaxRuns == 3

\* --------------------------------------------------------------- constants
MAX_FRAMES_IN_FLIGHT_APP == 5
MAX_FRAMES_IN_FLIGHT_BASE == 2
\* std::u32::MAX, the width the surface reports when it has no fixed extent;
\* represented by the largest integer TLC handles (only its being
\* above every real extent matters)
U32_MAX == 2147483647

Renderers == {"VulkanApp", "VulkanBase"}

\* What acquire_next_image_khr(swapchain, u64::MAX, semaphore, null) does
\* with an image whose presentation is queued but not yet executed is up to
\* the presentation engine: an eager engine hands it out at once and
\* signals the semaphore when the image can be written; an in-order engine
\* hands out an image only once its presentation has executed, and the
\* call blocks until there is one.
PresentationEngines == {"eager", "in_order"}

NoRenderData == [vertices |-> 0, fps_chars |-> 0]

\* vk::Result values other than SUCCESS / SUBOPTIMAL / ERROR_OUT_OF_DATE_KHR
ErrorCodes == {"ERROR_OUT_OF_HOST_MEMORY", "ERROR_OUT_OF_DEVICE_MEMORY"}

\* RenderData of the t-th call: the number of world vertices and the number
\* of characters of format!("{:.0}", fps); every call brings new data
RenderDataOf(t) == [vertices |-> 3 * t, fps_chars |-> 1 + (t % 2)]

\* sizes the window reports from get_inner_size()
WindowSizes == {<<800, 600>>, <<1024, 768>>}

\* vk::SurfaceCapabilitiesKHR values the surface may report
UndefinedExtent == <<U32_MAX, U32_MAX>>

\* the surface the renderer is constructed on: no fixed extent, a wide
\* range of extents, two images
InitialCaps ==
    [current_extent |-> UndefinedExtent, min_image_extent |-> <<1, 1>>,
     max_image_extent |-> <<4096, 4096>>,
     min_image_count |-> 1, max_image_count |-> 0]

\* what the surface may report later: the same; no fixed extent and a
\* narrow range; the fixed extent of a window shown at twice its logical
\* size, with three images
CapsSet ==
    { InitialCaps,
      [current_extent |-> UndefinedExtent, min_image_extent |-> <<1, 1>>,
       max_image_extent |-> <<1000, 700>>,
       min_image_count |-> 2, max_image_count |-> 2],
      [current_extent |-> <<2048, 1536>>, min_image_extent |-> <<2048, 1536>>,
       max_image_extent |-> <<2048, 1536>>,
       min_image_count |-> 2, max_image_count |-> 3] }

VARIABLES
    renderer,                       \* which renderer runs
    presentation_engine,            \* how the surface hands out images
    pc,                             \* position of the host in draw_frame
    resized,                        \* the resized argument of the call
    render_data,                    \* the RenderData argument of the call
    tick,                           \* number of draw_frame calls made
    callsLeft,                      \* draw_frame calls still to be followed
    ops,                            \* calls made by the current draw_frame
    reported,                       \* error reported to the current call
    result,                         \* value returned by the last call
    recreate_from,                  \* which branch entered recreate_swapchain
    errBudget,                      \* errors the device may still report
    staleBudget,                    \* resizes and stale results still to come
    current_frame,
    image_index,
    in_flight_fences,
    image_available_semaphores,
    render_finished_semaphores,
    transfer_ownership_semaphores,
    semaphore,
    screen,                         \* <<screen_width, screen_height>>
    surface_capabilities,           \* as last queried by create_swapchain
    present_modes,                  \* as last queried by create_swapchain
    surface_formats,                \* as last queried by create_swapchain
    surface_format,                 \* the format create_swapchain chose
    swapchain_ci,                   \* the vk::SwapchainCreateInfoKHR last used
    swapchain_extent,
    swapchain_len,
    swapchain_images,               \* per image: "free" or "acquired"
    swapchain_framebuffers,         \* per image: extent it was built with
    render_pass_cmd_bufs,
    transfer_cmd_bufs,
    graphics_draw_cmd_bufs,
    ui_draw_cmd_bufs,
    take_ownership_cmd_buffers,
    graphics_staging_vertex_buffers,
    graphics_vertex_buffers,
    ui_staging_vertex_buffers,
    ui_vertex_buffers,
    ui_uniform_buffers,
    command_buffers,                \* VulkanBase: pre-recorded, per image
    graphics_queue,                 \* submissions not yet executed
    transfer_queue,
    pending_acquires,               \* acquires whose semaphore is unsignaled
    side,                           \* the side a Square was constructed with
    square,                         \* a Square
    transforms,                     \* the matrices it was transformed by
    running,                        \* VulkanBase::start: let mut running
    just_started,                   \* VulkanBase::start: let mut just_started
    polled,                         \* events polled in the last iteration
    iterations,                     \* iterations of the loop of start
    quit_polled,                    \* an Escape key or a close request was polled
    resized_seen,                   \* a Resized event was polled
    geom_storage,                   \* per entity: <<>> or <<geometry>>
    transform_storage,              \* per entity: <<>> or <<transform>>
    aabb_storage,                   \* per entity: <<>> or <<aabb>>
    channel,                        \* transform events not yet read
    inserted,                       \* AABBComponentSystem.inserted
    modified,                       \* AABBComponentSystem.modified
    runs,                           \* runs of AABBComponentSystem
    run_result                      \* how the last run ended

hostVars == <<renderer, presentation_engine, pc, resized, render_data, tick, callsLeft, ops,
              reported, result,
              recreate_from, errBudget, staleBudget, current_frame,
              image_index>>
syncVars == <<in_flight_fences, image_available_semaphores,
              render_finished_semaphores, transfer_ownership_semaphores,
              semaphore>>
surfaceVars == <<screen, surface_capabilities, present_modes,
                 surface_formats, surface_format, swapchain_ci,
                 swapchain_extent, swapchain_len, swapchain_images,
                 swapchain_framebuffers, command_buffers>>
cmdBufVars == <<render_pass_cmd_bufs, transfer_cmd_bufs,
                graphics_draw_cmd_bufs, ui_draw_cmd_bufs,
                take_ownership_cmd_buffers>>
bufferVars == <<graphics_staging_vertex_buffers, graphics_vertex_buffers,
                ui_staging_vertex_buffers, ui_vertex_buffers,
                ui_uniform_buffers>>
queueVars == <<graphics_queue, transfer_queue, pending_acquires>>

geometryVars == <<side, square, transforms>>

startVars == <<running, just_started, polled, iterations, quit_polled,
               resized_seen>>

ecsVars == <<geom_storage, transform_storage, aabb_storage, channel,
             inserted, modified, runs, run_result>>

\* what the frame loop of the renderer leaves alone
worldVars == <<geometryVars, startVars, ecsVars>>

vars == <<hostVars, syncVars, surfaceVars, cmdBufVars, bufferVars, queueVars,
          worldVars>>

\* ------------------------------------------------------------ Rust vectors
VecLen(v) == Cardinality(DOMAIN v)
VecNew(n, x) == [k \in 0..(n - 1) |-> x]
VecPush(v, x) == [k \in 0..VecLen(v) |-> IF k < VecLen(v) THEN v[k] ELSE x]

IsApp == renderer = "VulkanApp"

MAX_FRAMES_IN_FLIGHT ==
    IF IsApp THEN MAX_FRAMES_IN_FLIGHT_APP ELSE MAX_FRAMES_IN_FLIGHT_BASE

\* ----------------------------------------------------- swapchain creation
clamp(lo, hi, v) == IF v < lo THEN lo ELSE IF v > hi THEN hi ELSE v

\* variant: the extent is the window size, whatever the surface reports
C6_WindowSize(caps, screen_width, screen_height) ==
    <<screen_width, screen_height>>

\* variant: the window size is clamped even when the extent is fixed
C29_AlwaysClamped(caps, screen_width, screen_height) ==
    <<clamp(caps.min_image_extent[1], caps.max_image_extent[1],
            screen_width),
      clamp(caps.min_image_extent[2], caps.max_image_extent[2],
            screen_height)>>

choose_swapchain_extent(caps, screen_width, screen_height) ==
    IF caps.current_extent[1] # U32_MAX
    THEN caps.current_extent
    ELSE <<clamp(caps.min_image_extent[1], caps.max_image_extent[1],
                 screen_width),
           clamp(caps.min_image_extent[2], caps.max_image_extent[2],
                 screen_height)>>

\* variant: one image more than the minimum, whatever the maximum
C28_NeverLowered(caps) == caps.min_image_count + 1

image_count(caps) ==
    IF caps.max_image_count > 0
       /\ caps.min_image_count + 1 > caps.max_image_count
    THEN caps.max_image_count
    ELSE caps.min_image_count + 1

\* what get_physical_device_surface_formats_khr reports for the surface the
\* frame loop runs on
SurfaceFormats ==
    << [format |-> "B8G8R8A8_UNORM", color_space |-> "SRGB_NONLINEAR"] >>

\* surface_formats.iter().map(|sfmt| match sfmt.format {
\*     vk::Format::UNDEFINED => vk::SurfaceFormatKHR {
\*         format: vk::Format::B8G8R8_UNORM, color_space: sfmt.color_space },
\*     _ => *sfmt }).nth(0)
\* Some(format) of the first reported format, or None
choose_surface_format(formats) ==
    IF formats = <<>> THEN <<"None">>
    ELSE LET sfmt == formats[1] IN
         <<"Some",
           IF sfmt.format = "UNDEFINED"
           THEN [format |-> "B8G8R8_UNORM", color_space |-> sfmt.color_space]
           ELSE sfmt>>

\* what get_physical_device_surface_present_modes_khr reports for the
\* surface the frame loop runs on
SurfacePresentModes == {"FIFO", "MAILBOX"}

\* present_modes.iter().cloned().find(|&mode| mode == wanted)
\*    .unwrap_or(vk::PresentModeKHR::FIFO)
\* where wanted is FIFO in VulkanApp and MAILBOX in VulkanBase
present_mode(modes) ==
    LET wanted == IF IsApp THEN "FIFO" ELSE "MAILBOX" IN
    IF wanted \in modes THEN wanted ELSE "FIFO"

\* vk::SwapchainCreateInfoKHR::builder().min_image_count(image_count)
\*    .image_extent(swapchain_extent).present_mode(present_mode)
SwapchainCreateInfo(caps, modes, screen_width, screen_height) ==
    [min_image_count |-> image_count(caps),
     image_extent |->
        choose_swapchain_extent(caps, screen_width, screen_height),
     present_mode |-> present_mode(modes)]

\* ------------------------------------------------------------- semaphores
ImageAvailable(s) == <<"image_available", s>>
RenderFinished(s) == <<"render_finished", s>>
TransferOwnership(i) == <<"transfer_ownership", i>>
PushSemaphore == <<"semaphore", 0>>

SemSignaled(id) ==
    CASE id[1] = "image_available" -> image_available_semaphores[id[2]]
      [] id[1] = "render_finished" -> render_finished_semaphores[id[2]]
      [] id[1] = "transfer_ownership" -> transfer_ownership_semaphores[id[2]]
      [] OTHER -> semaphore

\* a queue operation consumes the semaphores it waits on and signals others
SemAfter(vec, name, waited, signaled) ==
    [k \in DOMAIN vec |->
        IF <<name, k>> \in signaled THEN TRUE
        ELSE IF <<name, k>> \in waited THEN FALSE
        ELSE vec[k]]

NullFence == -1

Submission(kind, img, waits, signals, fence) ==
    [kind |-> kind, img |-> img, slot |-> current_frame, tick |-> tick + 1,
     wait |-> waits, signal |-> signals, fence |-> fence]

\* ----------------------------------------------------------------- buffers
\* Buffer (vulkan/buffer.rs): copy_data writes the elements into the mapped
\* memory of the buffer and marks its logical length, len in elements and
\* buf_len in bytes.
Buffer_new == [len |-> 0, buf_len |-> 0]

copy_data(n, size_of_element) == [len |-> n, buf_len |-> n * size_of_element]

\* std::mem::size_of of the two vertex types, Vertex3f and TextVertex
SIZE_OF_VERTEX3F == 20
SIZE_OF_TEXT_VERTEX == 36

\* a command buffer slot holding None
NoCmdBuf == [recorded |-> FALSE]

\* ---------------------------------------------------------------- geometry
\* Lengths are counted in halves of a unit, so that half a side is a whole
\* number: the point (-0.5, 2.0, 0.5) is <<-1, 4, 1>>.  A Matrix4f is the
\* tuple of its four rows; the entries of its last column are lengths.
Identity4 ==
    << <<1, 0, 0, 0>>, <<0, 1, 0, 0>>, <<0, 0, 1, 0>>, <<0, 0, 0, 1>> >>

\* Translation3::from_vector(v).to_homogeneous()
Translation(v) ==
    << <<1, 0, 0, v[1]>>, <<0, 1, 0, v[2]>>, <<0, 0, 1, v[3]>>,
       <<0, 0, 0, 1>> >>

\* Rotation3::from_axis_angle(&Vector3f::x_axis(), FRAC_PI_2)
\*    .to_homogeneous()
RotationX ==
    << <<1, 0, 0, 0>>, <<0, 0, -1, 0>>, <<0, 1, 0, 0>>, <<0, 0, 0, 1>> >>

\* product of two 4x4 matrices
MatMul(a, b) ==
    [r \in 1..4 |->
        [c \in 1..4 |->
            a[r][1] * b[1][c] + a[r][2] * b[2][c]
               + a[r][3] * b[3][c] + a[r][4] * b[4][c]]]

\* Isometry::from_parts(translation, rotation).to_homogeneous(): the
\* rotation, then the translation
Isometry(v, rotation) == MatMul(Translation(v), rotation)

\* the image of point p under the affine matrix m
transform_point(m, p) ==
    [r \in 1..3 |->
        m[r][1] * p[1] + m[r][2] * p[2] + m[r][3] * p[3] + m[r][4]]

\* Rectangle (geometry/rectangle.rs): a rectangle in the plane y = 0 around
\* the origin, with the identity as its transform and its corners in the
\* order (-w/2, -h/2), (-w/2, h/2), (w/2, h/2), (w/2, -h/2) in x and z;
\* transform multiplies the matrix from the left and maps each corner.
Rectangle_new(width, height) ==
    [transform |-> Identity4,
     vertices |-> << <<0 - width, 0, 0 - height>>, <<0 - width, 0, height>>,
                     <<width, 0, height>>, <<width, 0, 0 - height>> >>]

Rectangle_transform(rect, tr) ==
    [transform |-> MatMul(tr, rect.transform),
     vertices |-> [k \in 1..4 |-> transform_point(tr, rect.vertices[k])]]

\* Square::new(side)
Square_new(s) == [rect |-> Rectangle_new(s, s)]

\* variant: transform leaves the square as it is
C23_TransformIgnored(sq, tr) == sq

\* Square::transform(&mut self, tr)
Square_transform(sq, tr) == [rect |-> Rectangle_transform(sq.rect, tr)]

\* Square::transform_mat and Square::vertices
Square_transform_mat(sq) == sq.rect.transform

Square_vertices(sq) == sq.rect.vertices

\* the matrices the squares are transformed by: translations, and
\* translations of a quarter turn about the x axis; components of the
\* translation vectors, in halves of a unit
Shifts == {0, 1, 4}

Transforms ==
    {Isometry(<<x, y, z>>, rotation) :
        x \in Shifts, y \in Shifts, z \in Shifts,
        rotation \in {Identity4, RotationX}}

\* ---------------------------------------------------------- sync objects
\* MAX_FRAMES_IN_FLIGHT semaphores of each kind and as many fences, the
\* fences created with vk::FenceCreateFlags::SIGNALED
create_sync_objects ==
    [in_flight_fences |-> VecNew(MAX_FRAMES_IN_FLIGHT, TRUE),
     image_available_semaphores |-> VecNew(MAX_FRAMES_IN_FLIGHT, FALSE),
     render_finished_semaphores |-> VecNew(MAX_FRAMES_IN_FLIGHT, FALSE)]

\* -------------------------------------------------------------------- Init
\* State after VulkanApp::new / VulkanBase::new with an 800x600 window.
RendererInit ==
    /\ renderer \in Renderers
    /\ presentation_engine \in PresentationEngines
    /\ pc = "idle"
    /\ resized = FALSE
    /\ render_data = NoRenderData
    /\ tick = 0
    /\ callsLeft = MaxTicks
    /\ ops = <<>>
    /\ reported = <<>>
    /\ result = <<"Ok">>
    /\ recreate_from = "none"
    /\ errBudget = MaxErrors
    /\ staleBudget = MaxStale
    /\ current_frame = 0
    /\ image_index = 0
    /\ in_flight_fences = create_sync_objects.in_flight_fences
    /\ image_available_semaphores =
          create_sync_objects.image_available_semaphores
    /\ render_finished_semaphores =
          create_sync_objects.render_finished_semaphores
    /\ semaphore = FALSE
    /\ screen = <<800, 600>>
    /\ surface_capabilities = InitialCaps
    /\ present_modes = SurfacePresentModes
    /\ surface_formats = SurfaceFormats
    /\ surface_format = choose_surface_format(surface_formats)[2]
    /\ swapchain_ci =
          SwapchainCreateInfo(surface_capabilities, present_modes,
                              screen[1], screen[2])
    /\ swapchain_extent =
          choose_swapchain_extent(surface_capabilities, screen[1], screen[2])
    /\ swapchain_len = image_count(surface_capabilities)
    /\ swapchain_images = VecNew(swapchain_len, "free")
    /\ swapchain_framebuffers = VecNew(swapchain_len, swapchain_extent)
    /\ LET n == IF IsApp THEN swapchain_len ELSE 0 IN
        /\ transfer_ownership_semaphores = VecNew(n, FALSE)
        /\ render_pass_cmd_bufs = VecNew(n, NoCmdBuf)
        /\ transfer_cmd_bufs = VecNew(n, NoCmdBuf)
        /\ graphics_draw_cmd_bufs = VecNew(n, NoCmdBuf)
        /\ ui_draw_cmd_bufs = VecNew(n, NoCmdBuf)
        /\ take_ownership_cmd_buffers = VecNew(n, "Some")
        /\ graphics_staging_vertex_buffers = VecNew(n, Buffer_new)
        /\ graphics_vertex_buffers = VecNew(n, Buffer_new)
        /\ ui_staging_vertex_buffers = VecNew(n, Buffer_new)
        /\ ui_vertex_buffers = VecNew(n, Buffer_new)
        /\ ui_uniform_buffers = VecNew(n, "unwritten")
    /\ command_buffers =
          VecNew(IF IsApp THEN 0 ELSE swapchain_len, swapchain_extent)
    /\ graphics_queue = <<>>
    /\ transfer_queue = <<>>
    /\ pending_acquires = {}

\* VulkanBase::start before its loop: let mut running = true;
\* let mut just_started = true; nothing has been polled
StartEntry ==
    /\ running = TRUE
    /\ just_started = TRUE
    /\ polled = <<>>
    /\ iterations = 0
    /\ quit_polled = FALSE
    /\ resized_seen = FALSE

\* the entities of the world
Entities == 0..(MaxEntities - 1)

\* A world whose entities have no component yet, and an AABBComponentSystem
\* constructed with empty bit sets and a reader of the transform channel.
WorldNew ==
    /\ geom_storage = [e \in Entities |-> <<>>]
    /\ transform_storage = [e \in Entities |-> <<>>]
    /\ aabb_storage = [e \in Entities |-> <<>>]
    /\ channel = {}
    /\ inserted = {}
    /\ modified = {}
    /\ runs = 0
    /\ run_result = "none"

\* The renderer is constructed; the geometry takes no part in the frame
\* loop, where one untransformed square stands for it.
Init ==
    /\ RendererInit
    /\ side = 1
    /\ square = Square_new(side)
    /\ transforms = <<>>
    /\ StartEntry
    /\ WorldNew

\* ------------------------------------------------------------ frame loop
\* RenderSystem::run calls draw_frame(..).expect(..): an Err panics and the
\* process ends.  VulkanBase::start discards the result (let _ = ..) and
\* keeps looping.
AfterReturn(res) ==
    IF IsApp /\ res[1] = "Err" THEN "panicked" ELSE "returned"

\* nothing is modelled beyond the end of the process
Running == pc # "panicked"

\* ------------------------------------------------- pieces of draw_frame
\* draw_frame returns `res` after making the calls in `done`
Return(done, res) ==
    /\ pc' = AfterReturn(res)
    /\ ops' = done
    /\ result' = res

\* after the calls in `done`, the call `op` reports error e and draw_frame
\* returns it (`?`, or the Err(e) arm of a match)
Fail(done, op, e) ==
    /\ errBudget > 0
    /\ tick' <= MaxFaultTicks
    /\ errBudget' = errBudget - 1
    /\ reported' = <<op, e>>
    /\ Return(done \o <<op>>, <<"Err", e>>)

\* draw_frame goes on to recreate_swapchain, entered from branch `from`
Recreate(done, from) ==
    /\ pc' = "recreate_swapchain"
    /\ ops' = done
    /\ recreate_from' = from
    /\ result' = <<"pending">>

\* the window may be resized, or the swapchain found stale, in this call
StaleAllowed == staleBudget > 0 /\ tick < MaxFaultTicks

\* variant: current_frame is left as it is
C14_SameFrame == current_frame

\* self.current_frame = (self.current_frame + 1) % MAX_FRAMES_IN_FLIGHT
NextFrame == (current_frame + 1) % MAX_FRAMES_IN_FLIGHT

\* variant: the wait returns at once, whatever the state of the fence
C1_WaitReturnsAtOnce == TRUE

\* wait_for_fences(&[in_flight_fences[current_frame]], true, u64::MAX)
\* returns once the fence is signaled
FenceWaitReturns == in_flight_fences[current_frame]

\* variant: the host waits for the transfer queue to drain before it
\* submits to the graphics queue
C18_WaitsForTransfer ==
    << "update_ui_uniform_buffer", "push_constants",
       "update_graphics_vertex_buffer", "draw_text",
       "new_transfer_cmd_buf", "new_ui_draw_cmd_buf",
       "new_graphics_draw_cmd_buf",
       "submit_transfer", "queue_wait_idle", "submit_take_ownership",
       "new_render_pass_command_buffer", "reset_fences", "submit_render" >>

\* variant: the ownership acquire is submitted before the transfer
C24_OwnershipBeforeTransfer ==
    << "update_ui_uniform_buffer", "push_constants",
       "update_graphics_vertex_buffer", "draw_text",
       "new_transfer_cmd_buf", "new_ui_draw_cmd_buf",
       "new_graphics_draw_cmd_buf",
       "submit_take_ownership", "submit_transfer",
       "new_render_pass_command_buffer", "reset_fences", "submit_render" >>

\* The fallible calls between the acquire and the present, in source order.
AppDrawCalls ==
    << "update_ui_uniform_buffer", "push_constants",
       "update_graphics_vertex_buffer", "draw_text",
       "new_transfer_cmd_buf", "new_ui_draw_cmd_buf",
       "new_graphics_draw_cmd_buf",
       "submit_transfer", "submit_take_ownership",
       "new_render_pass_command_buffer", "reset_fences", "submit_render" >>

BaseDrawCalls == << "reset_fences", "submit_render" >>

DrawCalls == IF IsApp THEN AppDrawCalls ELSE BaseDrawCalls

\* call c is among the first k calls
Among(c, k) == \E j \in 1..k : DrawCalls[j] = c

\* OneTimeCommandBuffer::submit (vulkan/one_time_command_buffer.rs) returns
\* once the command buffer is submitted; it does not wait for the queue
OneTimeCommandBuffer_submit_returns == TRUE

\* OneTimeCommandBuffer::new .. cmd_push_constants .. submit(&[semaphore]):
\* a graphics-queue submission that signals the shared semaphore
PushConstantsSubmitInfo(i) ==
    Submission("push_constants", i, {}, {PushSemaphore}, NullFence)

TransferSubmitInfo(i) ==
    Submission("transfer", i, {}, {TransferOwnership(i)}, NullFence)

\* variant: the ownership acquire does not wait for the transfer
C3_OwnershipWithoutWait(i) ==
    Submission("take_ownership", i, {}, {}, NullFence)

TakeOwnershipSubmitInfo(i) ==
    Submission("take_ownership", i, {TransferOwnership(i)}, {}, NullFence)

\* variant: the render submission carries the fence of the next slot
C2_FenceOfNextSlot(i) ==
    Submission("render", i,
               IF IsApp
               THEN {ImageAvailable(current_frame), PushSemaphore}
               ELSE {ImageAvailable(current_frame)},
               {RenderFinished(current_frame)}, NextFrame)

\* variant: the render submission does not wait for the acquired image
C17_RenderWithoutWait(i) ==
    Submission("render", i,
               IF IsApp THEN {PushSemaphore} ELSE {},
               {RenderFinished(current_frame)}, current_frame)

RenderSubmitInfo(i) ==
    Submission("render", i,
               IF IsApp
               THEN {ImageAvailable(current_frame), PushSemaphore}
               ELSE {ImageAvailable(current_frame)},
               {RenderFinished(current_frame)}, current_frame)

PresentInfo(i) ==
    Submission("present", i, {RenderFinished(current_frame)}, {}, NullFence)

\* let cmd_buf = if let Some(cmd_buf) = self.<vector>[index] { cmd_buf }
\*               else { allocate_command_buffers(..)?[0] }
\* at the head of new_transfer_cmd_buf, new_ui_draw_cmd_buf,
\* new_graphics_draw_cmd_buf and new_render_pass_command_buffer: a command
\* buffer is allocated when the slot of the index holds None.  The last of
\* the four stores nothing in render_pass_cmd_bufs.
allocates(slot) == ~ slot.recorded

\* new_transfer_cmd_buf records the two copies, each of the buf_len of the
\* staging buffer of the index, and pushes the recorded buffer onto
\* transfer_cmd_bufs; new_ui_draw_cmd_buf and new_graphics_draw_cmd_buf
\* record a draw of the len of the staging buffer of the index and store
\* the recorded buffer at [index].  They run after the staging of the call.
new_transfer_cmd_buf(index) ==
    VecPush(transfer_cmd_bufs,
            [recorded |-> TRUE, index |-> index,
             graphics_size |-> graphics_staging_vertex_buffers'[index].buf_len,
             ui_size |-> ui_staging_vertex_buffers'[index].buf_len])

new_ui_draw_cmd_buf(index) ==
    [ui_draw_cmd_bufs EXCEPT
        ![index] = [recorded |-> TRUE,
                    vertex_count |-> ui_staging_vertex_buffers'[index].len]]

\* variant: a draw command buffer that exists is used as it was recorded
C20_RecordedOnce(index) ==
    IF graphics_draw_cmd_bufs[index].recorded
    THEN graphics_draw_cmd_bufs
    ELSE [graphics_draw_cmd_bufs EXCEPT
             ![index] =
                [recorded |-> TRUE,
                 vertex_count |->
                    graphics_staging_vertex_buffers'[index].len]]

new_graphics_draw_cmd_buf(index) ==
    [graphics_draw_cmd_bufs EXCEPT
        ![index] = [recorded |-> TRUE,
                    vertex_count |->
                       graphics_staging_vertex_buffers'[index].len]]

\* the host-side variables the acquired-image arm writes
drawVars == <<in_flight_fences, ui_uniform_buffers,
              graphics_staging_vertex_buffers, ui_staging_vertex_buffers,
              transfer_cmd_bufs, ui_draw_cmd_bufs, graphics_draw_cmd_bufs,
              graphics_queue, transfer_queue>>

\* state after the first k calls of DrawCalls succeeded for image i, and
\* after queue_present_khr if `presented`
DrawEffects(i, data, k, presented) ==
    LET one(c, sub) == IF Among(c, k) THEN <<sub>> ELSE <<>> IN
    /\ Among("push_constants", k) => OneTimeCommandBuffer_submit_returns
    /\ ui_uniform_buffers' =
          IF Among("update_ui_uniform_buffer", k)
          THEN [ui_uniform_buffers EXCEPT ![i] = "written"]
          ELSE ui_uniform_buffers
    /\ graphics_staging_vertex_buffers' =
          IF Among("update_graphics_vertex_buffer", k)
          THEN [graphics_staging_vertex_buffers EXCEPT
                   ![i] = copy_data(data.vertices, SIZE_OF_VERTEX3F)]
          ELSE graphics_staging_vertex_buffers
    /\ ui_staging_vertex_buffers' =
          IF Among("draw_text", k)
          THEN [ui_staging_vertex_buffers EXCEPT
                   ![i] = copy_data(6 * data.fps_chars, SIZE_OF_TEXT_VERTEX)]
          ELSE ui_staging_vertex_buffers
    /\ transfer_cmd_bufs' =
          IF Among("new_transfer_cmd_buf", k)
          THEN new_transfer_cmd_buf(i) ELSE transfer_cmd_bufs
    /\ ui_draw_cmd_bufs' =
          IF Among("new_ui_draw_cmd_buf", k)
          THEN new_ui_draw_cmd_buf(i) ELSE ui_draw_cmd_bufs
    /\ graphics_draw_cmd_bufs' =
          IF Among("new_graphics_draw_cmd_buf", k)
          THEN new_graphics_draw_cmd_buf(i) ELSE graphics_draw_cmd_bufs
    /\ transfer_queue' =
          transfer_queue \o one("submit_transfer", TransferSubmitInfo(i))
    /\ graphics_queue' =
          graphics_queue
             \o one("push_constants", PushConstantsSubmitInfo(i))
             \o one("submit_take_ownership", TakeOwnershipSubmitInfo(i))
             \o one("submit_render", RenderSubmitInfo(i))
             \o (IF presented THEN <<PresentInfo(i)>> ELSE <<>>)
    /\ in_flight_fences' =
          IF Among("reset_fences", k)
          THEN [in_flight_fences EXCEPT ![current_frame] = FALSE]
          ELSE in_flight_fences

\* acquire_next_image_khr handed out image i: it is the application's until
\* presented, and image_available[current_frame] is signaled later by the
\* presentation engine
Acquired(i, presented) ==
    /\ image_index' = i
    /\ swapchain_images' =
          IF presented THEN swapchain_images
          ELSE [swapchain_images EXCEPT ![i] = "acquired"]
    /\ pending_acquires' = pending_acquires \cup
          {[slot |-> current_frame, img |-> i, tick |-> tick + 1]}

NotAcquired == UNCHANGED <<image_index, swapchain_images, pending_acquires>>

Entry == <<"wait_for_fences", "acquire_next_image">>

\* the presentation of image i is queued and has not executed
PresentPending(i) ==
    \E k \in 1..Len(graphics_queue) :
        /\ graphics_queue[k].kind = "present"
        /\ graphics_queue[k].img = i

\* variant: the acquire also waits until the graphics queue has drained
C19_AcquireWaitsForQueue(i) ==
    /\ swapchain_images[i] = "free"
    /\ graphics_queue = <<>>

\* acquire_next_image_khr with timeout u64::MAX returns image i: the
\* application does not hold it and the presentation engine hands it out
AcquireReturns(i) ==
    /\ swapchain_images[i] = "free"
    /\ presentation_engine = "in_order" => ~ PresentPending(i)

\* image i can be indexed in the per-image vectors (VulkanBase indexes only
\* command_buffers, which recreate_swapchain rebuilds)
IndexInBounds(i) == IsApp => i \in DOMAIN ui_uniform_buffers

\* Indexing a per-image vector past its end panics; the first such access
\* is ui_uniform_buffers[image_index] in update_ui_uniform_buffer.
IndexPanicArm(i) ==
    /\ ~ IndexInBounds(i)
    /\ Acquired(i, FALSE)
    /\ pc' = "panicked"
    /\ ops' = Entry \o <<"update_ui_uniform_buffer">>
    /\ result' = <<"panic">>
    /\ reported' = <<>>
    /\ UNCHANGED <<errBudget, staleBudget, recreate_from,
                   current_frame, drawVars>>

\* one of the calls between the acquire and the present reports an error
DrawFailsArm(i, data) ==
    /\ IndexInBounds(i)
    /\ \E k \in 0..(Len(DrawCalls) - 1) :
          /\ DrawEffects(i, data, k, FALSE)
          /\ \E e \in ErrorCodes :
                Fail(Entry \o SubSeq(DrawCalls, 1, k), DrawCalls[k + 1], e)
    /\ Acquired(i, FALSE)
    /\ UNCHANGED <<staleBudget, recreate_from, current_frame>>

\* variant: a call whose present reports an error moves on to the next
\* frame slot before it returns the error
C35_FailedPresentAdvances(i, data) ==
    /\ IndexInBounds(i)
    /\ DrawEffects(i, data, Len(DrawCalls), FALSE)
    /\ \E e \in ErrorCodes : Fail(Entry \o DrawCalls, "queue_present", e)
    /\ Acquired(i, FALSE)
    /\ current_frame' = NextFrame
    /\ UNCHANGED <<staleBudget, recreate_from>>

\* queue_present_khr: Err(e) => return Err(e.into())
PresentFailsArm(i, data) ==
    /\ IndexInBounds(i)
    /\ DrawEffects(i, data, Len(DrawCalls), FALSE)
    /\ \E e \in ErrorCodes : Fail(Entry \o DrawCalls, "queue_present", e)
    /\ Acquired(i, FALSE)
    /\ UNCHANGED <<staleBudget, recreate_from, current_frame>>

\* variant: the call returns Ok after the render submission, without
\* handing the image to queue_present_khr
C13_ReturnsWithoutPresent(i, data) ==
    /\ IndexInBounds(i)
    /\ DrawEffects(i, data, Len(DrawCalls), FALSE)
    /\ Acquired(i, FALSE)
    /\ Return(Entry \o DrawCalls, <<"Ok">>)
    /\ current_frame' = NextFrame
    /\ reported' = <<>>
    /\ UNCHANGED <<errBudget, staleBudget, recreate_from>>

\* queue_present_khr: Ok(false) => (), then current_frame advances
PresentOkArm(i, data) ==
    /\ IndexInBounds(i)
    /\ DrawEffects(i, data, Len(DrawCalls), TRUE)
    /\ Acquired(i, TRUE)
    /\ Return(Entry \o DrawCalls \o <<"queue_present:Ok(false)">>, <<"Ok">>)
    /\ current_frame' = NextFrame
    /\ reported' = <<>>
    /\ UNCHANGED <<errBudget, staleBudget, recreate_from>>

\* variant: a suboptimal or stale present is taken for a success
C9_StalePresentIgnored(i, data) ==
    /\ IndexInBounds(i)
    /\ StaleAllowed
    /\ staleBudget' = staleBudget - 1
    /\ DrawEffects(i, data, Len(DrawCalls), TRUE)
    /\ Acquired(i, TRUE)
    /\ \E r \in {"queue_present:Ok(true)",
                 "queue_present:ERROR_OUT_OF_DATE_KHR"} :
          Return(Entry \o DrawCalls \o <<r>>, <<"Ok">>)
    /\ current_frame' = NextFrame
    /\ reported' = <<>>
    /\ UNCHANGED <<errBudget, recreate_from>>

\* queue_present_khr: Ok(true) | Err(ERROR_OUT_OF_DATE_KHR) =>
\* recreate_swapchain()?
PresentStaleArm(i, data) ==
    /\ IndexInBounds(i)
    /\ StaleAllowed
    /\ staleBudget' = staleBudget - 1
    /\ DrawEffects(i, data, Len(DrawCalls), TRUE)
    /\ Acquired(i, TRUE)
    /\ \E r \in {"queue_present:Ok(true)",
                 "queue_present:ERROR_OUT_OF_DATE_KHR"} :
          Recreate(Entry \o DrawCalls \o <<r>>, "present")
    /\ reported' = <<>>
    /\ UNCHANGED <<errBudget, current_frame>>

\* The Ok((image_index, _)) arm of the acquire: the upload and submission
\* calls, then queue_present_khr.
AcquiredImageArm(i, data) ==
    \/ IndexPanicArm(i)
    \/ DrawFailsArm(i, data)
    \/ PresentFailsArm(i, data)
    \/ PresentOkArm(i, data)
    \/ PresentStaleArm(i, data)

\* wait_for_fences(..)? reports an error
FenceWaitFailsArm(r) ==
    /\ \E e \in ErrorCodes : Fail(<<>>, "wait_for_fences", e)
    /\ staleBudget' = IF r THEN staleBudget - 1 ELSE staleBudget
    /\ NotAcquired
    /\ UNCHANGED <<recreate_from, current_frame, drawVars>>

\* variant: the resized flag is ignored
C5_ResizedIgnored(r) == FALSE

\* if resized { recreate_swapchain()?; return Ok(()) }
SkipsDrawing(r) == r

\* variant: a resized call moves on to the next frame slot
C15_ResizedAdvances ==
    /\ staleBudget' = staleBudget - 1
    /\ Recreate(<<"wait_for_fences">>, "resized")
    /\ NotAcquired
    /\ current_frame' = NextFrame
    /\ reported' = <<>>
    /\ UNCHANGED <<errBudget, drawVars>>

ResizedArm ==
    /\ staleBudget' = staleBudget - 1
    /\ Recreate(<<"wait_for_fences">>, "resized")
    /\ NotAcquired
    /\ reported' = <<>>
    /\ UNCHANGED <<errBudget, current_frame, drawVars>>

\* variant: a stale acquire is returned to the caller like any other error
C8_StaleAcquireReturned ==
    /\ StaleAllowed
    /\ staleBudget' = staleBudget - 1
    /\ Return(<<"wait_for_fences",
                "acquire_next_image:ERROR_OUT_OF_DATE_KHR">>,
              <<"Err", "ERROR_OUT_OF_DATE_KHR">>)
    /\ NotAcquired
    /\ reported' = <<>>
    /\ UNCHANGED <<errBudget, recreate_from, current_frame,
                   drawVars>>

\* acquire_next_image_khr: Err(ERROR_OUT_OF_DATE_KHR) => recreate_swapchain
AcquireOutOfDateArm ==
    /\ StaleAllowed
    /\ staleBudget' = staleBudget - 1
    /\ Recreate(<<"wait_for_fences",
                  "acquire_next_image:ERROR_OUT_OF_DATE_KHR">>, "acquire")
    /\ NotAcquired
    /\ reported' = <<>>
    /\ UNCHANGED <<errBudget, current_frame, drawVars>>

\* acquire_next_image_khr: Err(e) => Err(e.into())
AcquireFailsArm ==
    /\ \E e \in ErrorCodes :
          Fail(<<"wait_for_fences">>, "acquire_next_image", e)
    /\ NotAcquired
    /\ UNCHANGED <<staleBudget, recreate_from, current_frame, drawVars>>

\* One call of draw_frame, up to its return or up to the device_wait_idle
\* of recreate_swapchain.
DrawFrame(r, data) ==
    /\ pc \in {"idle", "returned"}
    /\ callsLeft > 0
    /\ callsLeft' = callsLeft - 1
    /\ r => StaleAllowed
    /\ tick' = tick + 1
    /\ resized' = r
    /\ render_data' = data
    /\ \/ FenceWaitFailsArm(r)
       \/ /\ FenceWaitReturns
          /\ \/ SkipsDrawing(r) /\ ResizedArm
             \/ ~ SkipsDrawing(r) /\ AcquireOutOfDateArm
             \/ ~ SkipsDrawing(r) /\ AcquireFailsArm
             \/ /\ ~ SkipsDrawing(r)
                /\ \E i \in DOMAIN swapchain_images :
                      /\ AcquireReturns(i)
                      /\ AcquiredImageArm(i, data)
    /\ UNCHANGED <<renderer, presentation_engine>>
    /\ UNCHANGED <<image_available_semaphores, render_finished_semaphores,
                   transfer_ownership_semaphores, semaphore>>
    /\ UNCHANGED <<screen, surface_capabilities, present_modes,
                   surface_formats, surface_format, swapchain_ci,
                   swapchain_extent, swapchain_len, swapchain_framebuffers,
                   command_buffers>>
    /\ UNCHANGED <<render_pass_cmd_bufs, take_ownership_cmd_buffers,
                   graphics_vertex_buffers, ui_vertex_buffers>>
    /\ UNCHANGED worldVars

\* --------------------------------------------------- swapchain recreation
\* create_swapchain(screen_width, screen_height) with the surface reporting
\* the formats `formats`, of which there is at least one, capabilities
\* `caps` and present modes `modes`: the format, the extent, the image
\* count and the present mode are chosen, the swapchain is created with
\* them and its images are fetched (as many as were asked for)
create_swapchain(formats, caps, modes, screen_width, screen_height) ==
    /\ surface_formats' = formats
    /\ surface_format' = choose_surface_format(formats)[2]
    /\ surface_capabilities' = caps
    /\ present_modes' = modes
    /\ swapchain_ci' =
          SwapchainCreateInfo(caps, modes, screen_width, screen_height)
    /\ swapchain_extent' =
          choose_swapchain_extent(caps, screen_width, screen_height)
    /\ swapchain_len' = image_count(caps)
    /\ swapchain_images' = VecNew(image_count(caps), "free")

\* variant: device_wait_idle returns at once, whatever the queues hold
C12_IdleAtOnce == TRUE

\* device_wait_idle returns once both queues have drained
DeviceIdle == graphics_queue = <<>> /\ transfer_queue = <<>>

\* variant: every recreation moves on to the next frame slot
C22_NextSlotAfterRecreate == NextFrame

\* recreate_swapchain does not write current_frame; a call that recreates
\* after a stale present goes on to
\* self.current_frame = (self.current_frame + 1) % MAX_FRAMES_IN_FLIGHT
FrameAfterRecreate ==
    IF recreate_from = "present" THEN NextFrame ELSE current_frame

\* recreate_swapchain: device_wait_idle, clean_up_swapchain (which destroys
\* the framebuffers, pipelines, render pass, image views and swapchain),
\* get_inner_size, create_swapchain and the extent-sized objects.  In
\* VulkanApp the per-image buffers, command buffer vectors and
\* transfer-ownership semaphores are not touched; VulkanBase rebuilds
\* command_buffers.
\* A failing capabilities query is returned by VulkanApp (`?`) and unwrapped
\* by VulkanBase.  A call failing after create_swapchain leaves the new
\* swapchain in place with the old framebuffers.
RecreateSwapchain ==
    /\ pc = "recreate_swapchain"
    /\ recreate_from' = "none"
    /\ UNCHANGED <<renderer, presentation_engine, resized, render_data,
                   tick, staleBudget, image_index>>
    /\ \/ /\ \E e \in ErrorCodes : Fail(ops, "device_wait_idle", e)
          /\ UNCHANGED <<surfaceVars, current_frame, callsLeft>>
       \/ /\ DeviceIdle
          /\ \E win \in WindowSizes :
             /\ screen' = win
             /\ \/ \E caps \in CapsSet :
                     /\ create_swapchain(SurfaceFormats, caps,
                                         SurfacePresentModes, win[1], win[2])
                     /\ swapchain_framebuffers' =
                           VecNew(image_count(caps),
                                  choose_swapchain_extent(caps, win[1], win[2]))
                     /\ command_buffers' =
                           VecNew(IF IsApp THEN 0 ELSE image_count(caps),
                                  choose_swapchain_extent(caps, win[1], win[2]))
                     /\ current_frame' = FrameAfterRecreate
                     /\ Return(ops \o <<"device_wait_idle",
                                        "clean_up_swapchain",
                                        "recreate_swapchain">>, <<"Ok">>)
                     /\ callsLeft' = IF callsLeft < MaxTicksAfterRecreate
                                     THEN callsLeft ELSE MaxTicksAfterRecreate
                     /\ UNCHANGED <<reported, errBudget>>
                \/ \E caps \in CapsSet :
                     /\ create_swapchain(SurfaceFormats, caps,
                                         SurfacePresentModes, win[1], win[2])
                     /\ \E e \in ErrorCodes :
                           Fail(ops \o <<"device_wait_idle",
                                         "clean_up_swapchain",
                                         "create_swapchain">>,
                                "create_render_pass", e)
                     /\ UNCHANGED <<swapchain_framebuffers, command_buffers,
                                    current_frame, callsLeft>>
                \/ /\ \E e \in ErrorCodes :
                         Fail(ops \o <<"device_wait_idle",
                                         "clean_up_swapchain">>,
                              "create_swapchain", e)
                   /\ UNCHANGED <<surface_capabilities, present_modes,
                                  surface_formats, surface_format,
                                  swapchain_ci, swapchain_extent,
                                  swapchain_len, swapchain_images,
                                  swapchain_framebuffers, command_buffers,
                                  current_frame, callsLeft>>
                \/ /\ errBudget > 0
                   /\ tick <= MaxFaultTicks
                   /\ errBudget' = errBudget - 1
                   /\ \E e \in ErrorCodes :
                         /\ reported' = <<"get_surface_capabilities", e>>
                         /\ IF IsApp
                            THEN Return(ops \o <<"device_wait_idle",
                                                 "clean_up_swapchain",
                                                 "get_surface_capabilities">>,
                                        <<"Err", e>>)
                            ELSE /\ pc' = "panicked"
                                 /\ ops' = ops \o <<"device_wait_idle",
                                                    "clean_up_swapchain",
                                                    "get_surface_capabilities">>
                                 /\ result' = <<"panic">>
                   /\ UNCHANGED <<surface_capabilities, present_modes,
                                  surface_formats, surface_format,
                                  swapchain_ci, swapchain_extent,
                                  swapchain_len, swapchain_images,
                                  swapchain_framebuffers, command_buffers,
                                  current_frame, callsLeft>>
    /\ UNCHANGED <<syncVars, cmdBufVars, bufferVars, queueVars>>
    /\ UNCHANGED worldVars

\* ------------------------------------------------------------- the device
Ready(e) == \A s \in e.wait : SemSignaled(s)

\* effect of executing submission e on semaphores and fences
Execute(e) ==
    /\ image_available_semaphores' =
          SemAfter(image_available_semaphores, "image_available",
                   e.wait, e.signal)
    /\ render_finished_semaphores' =
          SemAfter(render_finished_semaphores, "render_finished",
                   e.wait, e.signal)
    /\ transfer_ownership_semaphores' =
          SemAfter(transfer_ownership_semaphores, "transfer_ownership",
                   e.wait, e.signal)
    /\ semaphore' = IF PushSemaphore \in e.signal THEN TRUE
                    ELSE IF PushSemaphore \in e.wait THEN FALSE
                    ELSE semaphore
    /\ in_flight_fences' =
          IF e.fence = NullFence THEN in_flight_fences
          ELSE [in_flight_fences EXCEPT ![e.fence] = TRUE]

GraphicsQueueExecute ==
    /\ Running
    /\ graphics_queue # <<>>
    /\ Ready(Head(graphics_queue))
    /\ Execute(Head(graphics_queue))
    /\ graphics_queue' = Tail(graphics_queue)
    /\ UNCHANGED <<hostVars, surfaceVars, cmdBufVars, bufferVars>>
    /\ UNCHANGED <<transfer_queue, pending_acquires>>
    /\ UNCHANGED worldVars

\* the transfer command buffer copies both staging buffers of its image
\* index into the device-local buffers
TransferQueueExecute ==
    /\ Running
    /\ transfer_queue # <<>>
    /\ Ready(Head(transfer_queue))
    /\ Execute(Head(transfer_queue))
    /\ LET i == Head(transfer_queue).img IN
        /\ graphics_vertex_buffers' =
              [graphics_vertex_buffers
                  EXCEPT ![i] = graphics_staging_vertex_buffers[i]]
        /\ ui_vertex_buffers' =
              [ui_vertex_buffers EXCEPT ![i] = ui_staging_vertex_buffers[i]]
    /\ transfer_queue' = Tail(transfer_queue)
    /\ UNCHANGED <<hostVars, surfaceVars, cmdBufVars>>
    /\ UNCHANGED <<graphics_staging_vertex_buffers,
                   ui_staging_vertex_buffers, ui_uniform_buffers>>
    /\ UNCHANGED <<graphics_queue, pending_acquires>>
    /\ UNCHANGED worldVars

\* the presentation engine signals the semaphore handed to an acquire once
\* no earlier present of that image is still queued
PresentationEngineSignal ==
    /\ Running
    /\ \E p \in pending_acquires :
        /\ \A k \in 1..Len(graphics_queue) :
              ~ (/\ graphics_queue[k].kind = "present"
                 /\ graphics_queue[k].img = p.img
                 /\ graphics_queue[k].tick < p.tick)
        /\ image_available_semaphores' =
              [image_available_semaphores EXCEPT ![p.slot] = TRUE]
        /\ pending_acquires' = pending_acquires \ {p}
    /\ UNCHANGED <<hostVars, surfaceVars, cmdBufVars, bufferVars>>
    /\ UNCHANGED <<in_flight_fences, render_finished_semaphores,
                   transfer_ownership_semaphores, semaphore>>
    /\ UNCHANGED <<graphics_queue, transfer_queue>>
    /\ UNCHANGED worldVars

\* ------------------------------------------------------------------- Next
Next ==
    \/ \E r \in BOOLEAN : DrawFrame(r, RenderDataOf(tick + 1))
    \/ RecreateSwapchain
    \/ GraphicsQueueExecute
    \/ TransferQueueExecute
    \/ PresentationEngineSignal

Spec == Init /\ [][Next]_vars

\* ---------------------------------------------------------------- teardown
\* impl Drop (VulkanApp, VulkanBase), run when the frame loop has ended
\* between two calls of draw_frame:
\* wait_for_fences(&in_flight_fences, true, u64::MAX).unwrap() returns once
\* every fence is signaled, then clean_up_swapchain and the destruction of
\* the buffers, the semaphores, the fences and the command pools.  An error
\* reported by the wait panics before anything is destroyed.
drop ==
    /\ pc \in {"idle", "returned"}
    /\ \/ /\ \A s \in DOMAIN in_flight_fences : in_flight_fences[s]
          /\ pc' = "dropped"
          /\ ops' = <<"wait_for_fences", "clean_up_swapchain",
                      "destroy_buffers", "destroy_semaphores",
                      "destroy_fences", "destroy_command_pools">>
          /\ result' = <<"dropped">>
          /\ UNCHANGED <<reported, errBudget>>
       \/ /\ errBudget > 0
          /\ tick <= MaxFaultTicks
          /\ errBudget' = errBudget - 1
          /\ \E e \in ErrorCodes : reported' = <<"wait_for_fences", e>>
          /\ pc' = "panicked"
          /\ ops' = <<"wait_for_fences">>
          /\ result' = <<"panic">>
    /\ UNCHANGED <<renderer, presentation_engine, resized, render_data, tick,
                   callsLeft, recreate_from, staleBudget, current_frame,
                   image_index>>
    /\ UNCHANGED <<syncVars, surfaceVars, cmdBufVars, bufferVars, queueVars>>
    /\ UNCHANGED worldVars

\* the frame loop, ended at any moment between two calls
NextOrDrop == Next \/ drop

SpecWithDrop == Init /\ [][NextOrDrop]_vars

\* --------------------------------------------------- creating a swapchain
\* The capabilities a surface may report to create_swapchain: an extent
\* that is left to the swapchain or fixed within the range of extents, and
\* a maximum image count that is 0 (no limit) or at least the minimum.
ExtentWithin(lo, hi, e) ==
    \A d \in {1, 2} : lo[d] <= e[d] /\ e[d] <= hi[d]

SwapchainCaps ==
    {caps \in [current_extent : {UndefinedExtent, <<640, 480>>,
                                 <<2048, 1536>>},
               min_image_extent : {<<1, 1>>, <<900, 650>>, <<2048, 1536>>},
               max_image_extent : {<<1000, 700>>, <<2048, 1536>>,
                                   <<4096, 4096>>},
               min_image_count : 1..MaxImageCount,
               max_image_count : 0..(MaxImageCount + 1)] :
        /\ ExtentWithin(caps.min_image_extent, caps.max_image_extent,
                        caps.min_image_extent)
        /\ \/ caps.current_extent = UndefinedExtent
           \/ ExtentWithin(caps.min_image_extent, caps.max_image_extent,
                           caps.current_extent)
        /\ \/ caps.max_image_count = 0
           \/ caps.max_image_count >= caps.min_image_count}

\* the present modes a surface may report; FIFO is always among them
PresentModeSets ==
    {modes \in SUBSET {"FIFO", "MAILBOX", "IMMEDIATE"} : "FIFO" \in modes}

\* the formats a surface may report, by the color space they come with
ColorSpaces == {"SRGB_NONLINEAR", "EXTENDED_SRGB_LINEAR"}

ReportedFormats ==
    [format : {"UNDEFINED", "B8G8R8A8_UNORM"}, color_space : ColorSpaces]

\* the lists of formats a surface may report, the empty list among them
SurfaceFormatLists ==
    UNION {[1..n -> ReportedFormats] : n \in 0..MaxFormats}

\* create_swapchain(screen_width, screen_height) on a constructed renderer:
\* .nth(0).expect("Unable to find suitable surface format") panics when no
\* format is reported, before anything else is queried or written
CreateSwapchain(formats, caps, modes, win) ==
    /\ ops = <<>>
    /\ ops' = <<"create_swapchain">>
    /\ IF choose_surface_format(formats)[1] = "None"
       THEN /\ pc' = "panicked"
            /\ result' = <<"panic">>
            /\ surface_formats' = formats
            /\ UNCHANGED <<screen, surface_format, surface_capabilities,
                           present_modes, swapchain_ci, swapchain_extent,
                           swapchain_len, swapchain_images>>
       ELSE /\ screen' = win
            /\ create_swapchain(formats, caps, modes, win[1], win[2])
            /\ UNCHANGED <<pc, result>>
    /\ UNCHANGED <<swapchain_framebuffers, command_buffers>>
    /\ UNCHANGED <<renderer, presentation_engine, resized, render_data,
                   tick, callsLeft, reported, recreate_from,
                   errBudget, staleBudget, current_frame, image_index>>
    /\ UNCHANGED <<syncVars, cmdBufVars, bufferVars, queueVars, worldVars>>

\* one call of create_swapchain
SwapchainNext ==
    /\ ops = <<>>
    /\ \E formats \in SurfaceFormatLists, caps \in SwapchainCaps,
          modes \in PresentModeSets, win \in WindowSizes :
           CreateSwapchain(formats, caps, modes, win)

SwapchainSpec == Init /\ [][SwapchainNext]_vars

\* ------------------------------------------------ transforming a square
\* let mut s = Square::new(side); s.transform(&tr); ..
GeometryInit ==
    /\ renderer = "VulkanApp"
    /\ presentation_engine = "eager"
    /\ RendererInit
    /\ side \in 1..MaxSide
    /\ square = Square_new(side)
    /\ transforms = <<>>
    /\ StartEntry
    /\ WorldNew

Transform(tr) ==
    /\ Len(transforms) < MaxTransforms
    /\ square' = Square_transform(square, tr)
    /\ transforms' = Append(transforms, tr)
    /\ UNCHANGED side
    /\ UNCHANGED <<hostVars, syncVars, surfaceVars, cmdBufVars, bufferVars,
                   queueVars, startVars, ecsVars>>

GeometryNext == \E tr \in Transforms : Transform(tr)

GeometrySpec == GeometryInit /\ [][GeometryNext]_vars

\* -------------------------------------------------- the loop of start
\* The window events poll_events hands to the closure of VulkanBase::start:
\* DeviceEvent::Key with Some(VirtualKeyCode::Escape) or with another key,
\* WindowEvent::CloseRequested, WindowEvent::Resized, and any other event.
Events == {"Key(Escape)", "Key(Other)", "CloseRequested", "Resized", "Other"}

EventLists == UNION {[1..n -> Events] : n \in 0..MaxEvents}

\* variant: every Resized event sets the flag, the first one included
C37_EveryResizeCounts(st, event) ==
    CASE event \in {"Key(Escape)", "CloseRequested"}
            -> [st EXCEPT !.running = FALSE]
      [] event = "Resized"
            -> [st EXCEPT !.just_started = FALSE, !.resized = TRUE]
      [] OTHER -> st

\* the closure passed to poll_events, on the locals running, just_started
\* and resized
HandleEvent(st, event) ==
    CASE event \in {"Key(Escape)", "CloseRequested"}
            -> [st EXCEPT !.running = FALSE]
      [] event = "Resized"
            -> IF st.just_started
               THEN [st EXCEPT !.just_started = FALSE]
               ELSE [st EXCEPT !.resized = TRUE]
      [] OTHER -> st

\* self.events_loop.poll_events(closure): the closure is called with each
\* pending event in turn
RECURSIVE poll_events(_, _)
poll_events(st, events) ==
    IF events = <<>> THEN st
    ELSE poll_events(HandleEvent(st, Head(events)), Tail(events))

\* One iteration of `while running { .. }`: let mut resized = false, the
\* events are polled, then let _ = self.draw_frame(resized).  What
\* draw_frame does with the flag is the subject of Spec; here the call is
\* counted in tick and its argument kept in resized.
StartLoop(events) ==
    /\ running
    /\ iterations < MaxIterations
    /\ LET st == poll_events([running |-> running,
                              just_started |-> just_started,
                              resized |-> FALSE], events) IN
        /\ running' = st.running
        /\ just_started' = st.just_started
        /\ resized' = st.resized
    /\ tick' = tick + 1
    /\ polled' = events
    /\ iterations' = iterations + 1
    /\ quit_polled' =
          (quit_polled \/ \E k \in 1..Len(events) :
                             events[k] \in {"Key(Escape)", "CloseRequested"})
    /\ resized_seen' =
          (resized_seen \/ \E k \in 1..Len(events) : events[k] = "Resized")
    /\ UNCHANGED <<renderer, presentation_engine, pc, render_data, callsLeft,
                   ops, reported, result, recreate_from, errBudget,
                   staleBudget, current_frame, image_index>>
    /\ UNCHANGED <<syncVars, surfaceVars, cmdBufVars, bufferVars, queueVars,
                   geometryVars, ecsVars>>

StartNext == \E events \in EventLists : StartLoop(events)

\* VulkanBase::start on a constructed VulkanBase
StartInit ==
    /\ renderer = "VulkanBase"
    /\ presentation_engine = "eager"
    /\ Init

StartSpec == StartInit /\ [][StartNext]_vars

\* ------------------------------------------------ AABBComponentSystem
\* PrimitiveGeometry::aabb(&self, transform): the axis-aligned box around
\* the vertices of the geometry under the transform, by its two corners
Smallest(S) == CHOOSE x \in S : \A y \in S : x <= y

Largest(S) == CHOOSE x \in S : \A y \in S : y <= x

aabb(geom, transform) ==
    LET pts == {transform_point(transform, Square_vertices(geom)[k]) :
                   k \in 1..4} IN
    [min |-> [d \in 1..3 |-> Smallest({p[d] : p \in pts})],
     max |-> [d \in 1..3 |-> Largest({p[d] : p \in pts})]]

\* the geometries and the transforms given to the entities
Geometries == {Square_new(s) : s \in 1..MaxSide}

EntityTransforms == {Identity4, Translation(<<0, 4, 0>>)}

\* (&entities, &geom_storage, &transform_storage, &bits).join(): the
\* entities in the bit set that have both components, in ascending order
Joined(bits) ==
    {e \in bits : geom_storage[e] # <<>> /\ transform_storage[e] # <<>>}

\* geom_storage.insert(entity, geometry): the geometry storage is not
\* flagged, nothing is written to the transform channel
InsertGeometry(e, g) ==
    /\ run_result # "panicked"
    /\ geom_storage[e] = <<>>
    /\ geom_storage' = [geom_storage EXCEPT ![e] = <<g>>]
    /\ UNCHANGED <<transform_storage, aabb_storage, channel, inserted,
                   modified, runs, run_result>>
    /\ UNCHANGED <<hostVars, syncVars, surfaceVars, cmdBufVars, bufferVars,
                   queueVars, geometryVars, startVars>>

\* transform_storage.insert(entity, TransformComponent(tr)) for an entity
\* without a transform: FlaggedStorage writes ComponentEvent::Inserted
InsertTransform(e, tr) ==
    /\ run_result # "panicked"
    /\ transform_storage[e] = <<>>
    /\ transform_storage' = [transform_storage EXCEPT ![e] = <<tr>>]
    /\ channel' = channel \cup {<<"Inserted", e>>}
    /\ UNCHANGED <<geom_storage, aabb_storage, inserted, modified, runs,
                   run_result>>
    /\ UNCHANGED <<hostVars, syncVars, surfaceVars, cmdBufVars, bufferVars,
                   queueVars, geometryVars, startVars>>

\* transform_storage.get_mut(entity) and a write through it, or an insert
\* over the transform the entity has: FlaggedStorage writes
\* ComponentEvent::Modified
ModifyTransform(e, tr) ==
    /\ run_result # "panicked"
    /\ transform_storage[e] # <<>>
    /\ transform_storage' = [transform_storage EXCEPT ![e] = <<tr>>]
    /\ channel' = channel \cup {<<"Modified", e>>}
    /\ UNCHANGED <<geom_storage, aabb_storage, inserted, modified, runs,
                   run_result>>
    /\ UNCHANGED <<hostVars, syncVars, surfaceVars, cmdBufVars, bufferVars,
                   queueVars, geometryVars, startVars>>

\* the box of entity e for its geometry and its transform
AABBOf(e) == aabb(geom_storage[e][1], transform_storage[e][1])

\* AABBComponentSystem::run: the bit sets are cleared and filled from the
\* events read from the channel; every joined entity in `inserted` without
\* a box gets one; the box of every joined entity in `modified` is written
\* through aabb_storage.get_mut(entity).unwrap(), which panics for an
\* entity without a box, after the entities before it have been written.
AABBComponentSystem_run ==
    /\ run_result # "panicked"
    /\ runs < MaxRuns
    /\ runs' = runs + 1
    /\ inserted' = {e \in Entities : <<"Inserted", e>> \in channel}
    /\ modified' = {e \in Entities : <<"Modified", e>> \in channel}
    /\ channel' = {}
    /\ LET afterInserted ==
               [e \in Entities |->
                   IF e \in Joined(inserted') /\ aabb_storage[e] = <<>>
                   THEN <<AABBOf(e)>> ELSE aabb_storage[e]]
           unwrapFails ==
               {e \in Joined(modified') : afterInserted[e] = <<>>}
           written ==
               {e \in Joined(modified') :
                   \A f \in unwrapFails : e < f}
       IN
        /\ aabb_storage' =
              [e \in Entities |->
                  IF e \in written THEN <<AABBOf(e)>> ELSE afterInserted[e]]
        /\ run_result' =
              IF unwrapFails = {} THEN "returned" ELSE "panicked"
    /\ UNCHANGED <<geom_storage, transform_storage>>
    /\ UNCHANGED <<hostVars, syncVars, surfaceVars, cmdBufVars, bufferVars,
                   queueVars, geometryVars, startVars>>

WorldNext ==
    \/ \E e \in Entities, g \in Geometries : InsertGeometry(e, g)
    \/ \E e \in Entities, tr \in EntityTransforms : InsertTransform(e, tr)
    \/ \E e \in Entities, tr \in EntityTransforms : ModifyTransform(e, tr)
    \/ AABBComponentSystem_run

\* the world beside a constructed renderer
WorldInit ==
    /\ renderer = "VulkanApp"
    /\ presentation_engine = "eager"
    /\ Init

WorldSpec == WorldInit /\ [][WorldNext]_vars

\* ------------------------------------------------------------ properties
Range(seq) == {seq[k] : k \in 1..Len(seq)}

Last(seq) == seq[Len(seq)]

\* a step that is one call of draw_frame / the completion of a recreation
IsCallStep == pc \in {"idle", "returned"} /\ tick' = tick + 1

IsRecreateStep == pc = "recreate_swapchain" /\ pc' # "recreate_swapchain"

\* no error was reported to the host in this step
NoErrorReported == errBudget' = errBudget

\* the step left the queues, the per-image buffers and command buffer
\* vectors and the acquisition state of the images as they were
NothingDrawn ==
    /\ graphics_queue' = graphics_queue
    /\ transfer_queue' = transfer_queue
    /\ pending_acquires' = pending_acquires
    /\ bufferVars' = bufferVars
    /\ cmdBufVars' = cmdBufVars
    /\ in_flight_fences' = in_flight_fences

\* render submissions whose fence has not signaled yet
PendingRenders ==
    {k \in 1..Len(graphics_queue) : graphics_queue[k].kind = "render"}

\* C1: the number of render submissions whose in-flight fence has not yet
\* signaled never exceeds MAX_FRAMES_IN_FLIGHT (5 in VulkanApp, 2 in
\* VulkanBase), whatever the resized flags and stale results.
C1_FramesInFlightBounded ==
    Cardinality(PendingRenders) <= MAX_FRAMES_IN_FLIGHT

\* VulkanApp has all five slots in flight
C1_Witness ==
    /\ IsApp
    /\ Cardinality(PendingRenders) = MAX_FRAMES_IN_FLIGHT_APP

\* C2: a call that resets the fence of slot current_frame has first waited
\* on it: the fence was signaled, no submission that signals it was still
\* outstanding, and the render submission of the call carries that fence.
C2_ResetOnlyAfterWait ==
    [][ (IsCallStep /\ "reset_fences" \in Range(ops'))
        => /\ ops'[1] = "wait_for_fences"
           /\ in_flight_fences[current_frame]
           /\ \A k \in 1..Len(graphics_queue) :
                 graphics_queue[k].fence # current_frame
           /\ \A k \in (Len(graphics_queue) + 1)..Len(graphics_queue') :
                 graphics_queue'[k].kind = "render"
                    => graphics_queue'[k].fence = current_frame ]_vars

\* a slot is used for the second time: its fence was reset and resubmitted
C2_Witness ==
    /\ tick > MAX_FRAMES_IN_FLIGHT
    /\ "submit_render" \in Range(ops)
    /\ ~ in_flight_fences[(tick - 1) % MAX_FRAMES_IN_FLIGHT]

\* C3: the render submission of a tick executes only when the transfer
\* submission of the same tick has completed (and so has signaled
\* transfer_ownership_semaphores[i]) and the ownership acquire of the tick,
\* which waits on that semaphore, has run; the host submits in the order
\* transfer, ownership acquire, render.
C3_DrawAfterTransfer ==
    [][ /\ ( /\ IsApp
             /\ graphics_queue # <<>>
             /\ Head(graphics_queue).kind = "render"
             /\ graphics_queue' = Tail(graphics_queue) )
           => /\ \A k \in 1..Len(transfer_queue) :
                    transfer_queue[k].tick # Head(graphics_queue).tick
              /\ \A k \in 1..Len(graphics_queue) :
                    graphics_queue[k].tick = Head(graphics_queue).tick
                       => graphics_queue[k].kind # "take_ownership"
        /\ (IsApp /\ IsCallStep /\ "submit_render" \in Range(ops'))
           => \E a, b, c \in 1..Len(ops') :
                 /\ a < b /\ b < c
                 /\ ops'[a] = "submit_transfer"
                 /\ ops'[b] = "submit_take_ownership"
                 /\ ops'[c] = "submit_render" ]_vars

\* VulkanApp has transferred and drawn everything up to the current tick
C3_Witness ==
    /\ IsApp
    /\ tick >= 2
    /\ \E i \in DOMAIN graphics_vertex_buffers :
          graphics_vertex_buffers[i].len = RenderDataOf(tick).vertices
    /\ graphics_queue = <<>>
    /\ transfer_queue = <<>>
    /\ \A sl \in DOMAIN in_flight_fences : in_flight_fences[sl]

\* C4: the host writes the per-image resources of the acquired index only
\* when no transfer, ownership or render work of an earlier tick on the same
\* index is pending.
C4_NoHostWriteWhilePending ==
    [][ ( /\ IsApp
          /\ IsCallStep
          /\ Len(ops') >= 4
          /\ ops'[3] = "update_ui_uniform_buffer" )
        => /\ \A k \in 1..Len(graphics_queue) :
                 graphics_queue[k].img = image_index'
                    => graphics_queue[k].kind = "present"
           /\ \A k \in 1..Len(transfer_queue) :
                 transfer_queue[k].img # image_index' ]_vars

\* C5: a call with resized = true waits on the fence of the current slot
\* and recreates the swapchain; it acquires no image, stages nothing,
\* submits nothing and presents nothing, and it returns Ok unless the wait
\* or the recreation reported an error.
C5_ResizedTickOnlyRecreates ==
    [][ /\ (IsCallStep /\ resized')
           => /\ NothingDrawn
              /\ swapchain_images' = swapchain_images
              /\ NoErrorReported
                    => /\ in_flight_fences[current_frame]
                       /\ pc' = "recreate_swapchain"
                       /\ ops' = <<"wait_for_fences">>
        /\ (IsRecreateStep /\ resized)
           => /\ NothingDrawn
              /\ NoErrorReported
                    => /\ pc' = "returned"
                       /\ result' = <<"Ok">>
                       /\ ops' = <<"wait_for_fences", "device_wait_idle",
                                   "clean_up_swapchain",
                                   "recreate_swapchain">> ]_vars

\* a resized call has returned Ok after earlier drawing calls
C5_Witness ==
    /\ resized
    /\ tick >= 2
    /\ pc = "returned"
    /\ result = <<"Ok">>
    /\ "recreate_swapchain" \in Range(ops)

\* the call that has just returned was a resize-flagged one that succeeded
AfterResizedTick ==
    /\ resized
    /\ pc = "returned"
    /\ result = <<"Ok">>

PerImageLengths ==
    IF IsApp
    THEN << VecLen(swapchain_framebuffers), VecLen(render_pass_cmd_bufs),
            VecLen(transfer_cmd_bufs), VecLen(graphics_draw_cmd_bufs),
            VecLen(ui_draw_cmd_bufs), VecLen(take_ownership_cmd_buffers),
            VecLen(transfer_ownership_semaphores),
            VecLen(graphics_staging_vertex_buffers),
            VecLen(graphics_vertex_buffers),
            VecLen(ui_staging_vertex_buffers), VecLen(ui_vertex_buffers),
            VecLen(ui_uniform_buffers) >>
    ELSE << VecLen(swapchain_framebuffers), VecLen(command_buffers) >>

\* C7: after a recreation every per-image collection has exactly
\* swapchain_len elements.
C7_PerImageLengths ==
    ( /\ pc = "returned"
      /\ result = <<"Ok">>
      /\ "recreate_swapchain" \in Range(ops) )
    => \A k \in 1..Len(PerImageLengths) : PerImageLengths[k] = swapchain_len

\* C8: when the acquire reports ERROR_OUT_OF_DATE_KHR the call goes on to
\* recreate the swapchain; nothing is staged, submitted or presented and
\* the stale result is not returned; the call returns Ok unless the
\* recreation itself reported an error.
C8_StaleAcquireRecreates ==
    [][ /\ ( /\ IsCallStep
             /\ "acquire_next_image:ERROR_OUT_OF_DATE_KHR" \in Range(ops') )
           => /\ pc' = "recreate_swapchain"
              /\ Len(ops') = 2
              /\ NothingDrawn
              /\ swapchain_images' = swapchain_images
              /\ NoErrorReported
        /\ (IsRecreateStep /\ recreate_from = "acquire")
           => /\ NothingDrawn
              /\ NoErrorReported
                    => /\ pc' = "returned"
                       /\ result' = <<"Ok">> ]_vars

\* a call has returned Ok after a stale acquire and a recreation
C8_Witness ==
    /\ pc = "returned"
    /\ result = <<"Ok">>
    /\ ops = <<"wait_for_fences", "acquire_next_image:ERROR_OUT_OF_DATE_KHR",
               "device_wait_idle", "clean_up_swapchain",
               "recreate_swapchain">>

StalePresents ==
    {"queue_present:Ok(true)", "queue_present:ERROR_OUT_OF_DATE_KHR"}

\* C9: when the present reports Ok(true) or ERROR_OUT_OF_DATE_KHR the call
\* goes on to recreate the swapchain and returns Ok unless the recreation
\* reported an error; when it reports Ok(false) the call returns Ok with
\* the swapchain left as it was.
C9_PresentResultHandled ==
    [][ /\ (IsCallStep /\ ops' # <<>> /\ Last(ops') \in StalePresents)
           => /\ pc' = "recreate_swapchain"
              /\ NoErrorReported
        /\ (IsRecreateStep /\ recreate_from = "present" /\ NoErrorReported)
           => /\ pc' = "returned"
              /\ result' = <<"Ok">>
              /\ "recreate_swapchain" \in Range(ops')
        /\ ( /\ IsCallStep
             /\ ops' # <<>>
             /\ Last(ops') = "queue_present:Ok(false)" )
           => /\ pc' = "returned"
              /\ result' = <<"Ok">>
              /\ surfaceVars' = surfaceVars ]_vars

\* a call has returned Ok after a suboptimal present and a recreation
C9_Witness ==
    /\ pc = "returned"
    /\ result = <<"Ok">>
    /\ "queue_present:Ok(true)" \in Range(ops)
    /\ Last(ops) = "recreate_swapchain"

\* C10: an error reported to draw_frame by any call makes it return Err
\* with that error.
C10_ErrorsReturned ==
    [][ (errBudget' < errBudget)
        => /\ pc' \in {"returned", "panicked"}
           /\ result' = <<"Err", reported'[2]>> ]_vars

\* C11: once a call of draw_frame has returned an error the frame loop makes
\* no further call of draw_frame.
C11_ErrorEndsLoop ==
    [][ IsCallStep => result[1] # "Err" ]_vars

\* the calls of recreate_swapchain that build or query for the new objects
CreationCalls ==
    {"get_surface_capabilities", "create_swapchain", "create_render_pass",
     "recreate_swapchain"}

\* the swapchain and the objects built from it
SwapchainObjects ==
    <<surface_capabilities, swapchain_extent, swapchain_len,
      DOMAIN swapchain_images, swapchain_framebuffers, command_buffers>>

\* C12: in every recreation device_wait_idle has returned before
\* clean_up_swapchain destroys the old objects, and clean_up_swapchain runs
\* before any call that builds the new ones; when the old objects are
\* destroyed no submission is pending on either queue; the objects are
\* replaced in no other step, and a failed device_wait_idle destroys nothing.
C12_IdleBeforeDestroyBeforeCreate ==
    [][ /\ (IsRecreateStep /\ "clean_up_swapchain" \in Range(ops'))
           => /\ graphics_queue = <<>>
              /\ transfer_queue = <<>>
              /\ \E a, b \in 1..Len(ops') :
                    /\ a < b
                    /\ ops'[a] = "device_wait_idle"
                    /\ ops'[b] = "clean_up_swapchain"
                    /\ \A c \in 1..Len(ops') :
                          ops'[c] \in CreationCalls => b < c
        /\ (SwapchainObjects' # SwapchainObjects)
           => /\ IsRecreateStep
              /\ "clean_up_swapchain" \in Range(ops')
        /\ (IsRecreateStep /\ Last(ops') = "device_wait_idle")
           => /\ surfaceVars' = surfaceVars
              /\ pc' # "recreate_swapchain" ]_vars

\* a call submitted its frame, found the swapchain out of date at present
\* and has recreated it after earlier drawing calls
C12_Witness ==
    /\ tick >= 2
    /\ pc = "returned"
    /\ "submit_render" \in Range(ops)
    /\ "queue_present:ERROR_OUT_OF_DATE_KHR" \in Range(ops)
    /\ "clean_up_swapchain" \in Range(ops)
    /\ swapchain_len = 3

\* the call of this step acquired an image
AcquiredInStep == IsCallStep /\ pending_acquires' # pending_acquires

PresentCalls ==
    {"queue_present", "queue_present:Ok(false)"} \cup StalePresents

\* the call of this step handed an image to queue_present_khr
PresentCalled == \E k \in 1..Len(ops') : ops'[k] \in PresentCalls

AddedToGraphicsQueue ==
    {graphics_queue'[k] :
        k \in (Len(graphics_queue) + 1)..Len(graphics_queue')}

\* C14: a drawing call whose present reports Ok(false) has returned Ok,
\* current_frame has advanced by one modulo MAX_FRAMES_IN_FLIGHT, and the
\* fence of the slot the call used, signaled when the call waited on it,
\* was reset and then handed to the render submission of the call; the
\* fence is signaled again when that submission has executed.
C14_SuccessfulTick ==
    [][ /\ (IsCallStep /\ Last(ops') = "queue_present:Ok(false)")
           => /\ pc' = "returned"
              /\ result' = <<"Ok">>
              /\ current_frame' = (current_frame + 1) % MAX_FRAMES_IN_FLIGHT
              /\ in_flight_fences[current_frame]
              /\ ~ in_flight_fences'[current_frame]
              /\ \E a, b \in 1..Len(ops') :
                    /\ a < b
                    /\ ops'[a] = "reset_fences"
                    /\ ops'[b] = "submit_render"
              /\ \E e \in AddedToGraphicsQueue :
                    /\ e.kind = "render"
                    /\ e.tick = tick'
                    /\ e.fence = current_frame
        /\ ( /\ graphics_queue # <<>>
             /\ Head(graphics_queue).kind = "render"
             /\ graphics_queue' = Tail(graphics_queue) )
           => /\ Head(graphics_queue).fence = Head(graphics_queue).slot
              /\ in_flight_fences'[Head(graphics_queue).slot] ]_vars

\* MAX_FRAMES_IN_FLIGHT drawing calls have succeeded in a row: current_frame
\* is back at 0 and the fence of the last slot is armed
C14_Witness ==
    /\ tick = MAX_FRAMES_IN_FLIGHT
    /\ pc = "returned"
    /\ result = <<"Ok">>
    /\ Last(ops) = "queue_present:Ok(false)"
    /\ current_frame = 0
    /\ ~ in_flight_fences[MAX_FRAMES_IN_FLIGHT - 1]
    /\ staleBudget = MaxStale
    /\ errBudget = MaxErrors

\* C15 as stated: the slot a call of draw_frame uses is the number of calls
\* made before it, modulo MAX_FRAMES_IN_FLIGHT.
C15_SlotIsTickModK ==
    pc \in {"idle", "returned"}
       => current_frame = tick % MAX_FRAMES_IN_FLIGHT

\* the step completed a frame: the call presented it and returned Ok, at
\* once or after the recreation that followed a stale present
FrameCompleted ==
    \/ IsCallStep /\ Last(ops') = "queue_present:Ok(false)"
    \/ /\ IsRecreateStep
       /\ recreate_from = "present"
       /\ pc' = "returned"
       /\ result' = <<"Ok">>

\* C15, amended: the slot a call uses is current_frame, which starts at 0
\* and advances by one modulo MAX_FRAMES_IN_FLIGHT exactly when a call has
\* presented its frame and returned Ok; resized calls, calls diverted to
\* recreation by a stale acquire and calls that return an error leave it as
\* it is.  The fence a call waits on, the semaphore it acquires with and the
\* fence and semaphores of its render submission are those of that slot.
C15_SlotAdvancesWithFrames ==
    /\ current_frame = 0
    /\ [][ /\ current_frame' =
                 IF FrameCompleted
                 THEN (current_frame + 1) % MAX_FRAMES_IN_FLIGHT
                 ELSE current_frame
           /\ (IsCallStep /\ Len(ops') >= 2) => in_flight_fences[current_frame]
           /\ IsCallStep
                 => /\ \A p \in pending_acquires' \ pending_acquires :
                          p.slot = current_frame
                    /\ \A e \in AddedToGraphicsQueue :
                          e.kind = "render"
                             => /\ e.fence = current_frame
                                /\ ImageAvailable(current_frame) \in e.wait
                                /\ e.signal = {RenderFinished(current_frame)}
         ]_vars

\* a drawing call has returned Ok after an earlier resized call, in a slot
\* that is not the number of calls modulo MAX_FRAMES_IN_FLIGHT
C15_Witness ==
    /\ tick >= 3
    /\ pc = "returned"
    /\ result = <<"Ok">>
    /\ ~ resized
    /\ Last(ops) = "queue_present:Ok(false)"
    /\ staleBudget < MaxStale
    /\ current_frame # tick % MAX_FRAMES_IN_FLIGHT

\* the next call is one of the first MAX_FRAMES_IN_FLIGHT calls
AmongFirstCalls ==
    /\ pc \in {"idle", "returned"}
    /\ tick < MAX_FRAMES_IN_FLIGHT

\* the fence the next call waits on is signaled and no pending submission
\* is to signal it
WaitReturnsAtOnce ==
    /\ in_flight_fences[current_frame]
    /\ \A k \in 1..Len(graphics_queue) :
          graphics_queue[k].fence # current_frame

\* C16: the fences are created signaled, so the fence wait of each of the
\* first MAX_FRAMES_IN_FLIGHT calls returns without any submission having
\* completed.
C16_FirstWaitsReturn ==
    AmongFirstCalls => WaitReturnsAtOnce

\* the step executes the submission at the head of the graphics queue
Executes(kind) ==
    /\ graphics_queue # <<>>
    /\ Head(graphics_queue).kind = kind
    /\ graphics_queue' = Tail(graphics_queue)

\* C17: the render submission of a tick waits on the image-available
\* semaphore of its slot and starts only when that semaphore is signaled;
\* the present of the tick waits on the render-finished semaphore of the
\* slot and starts only when that semaphore is signaled and the render
\* submission of the same tick, which signals it, has executed.
C17_RenderAndPresentWait ==
    [][ /\ Executes("render")
           => /\ ImageAvailable(Head(graphics_queue).slot)
                    \in Head(graphics_queue).wait
              /\ image_available_semaphores[Head(graphics_queue).slot]
              /\ Head(graphics_queue).signal =
                    {RenderFinished(Head(graphics_queue).slot)}
        /\ Executes("present")
           => /\ Head(graphics_queue).wait =
                    {RenderFinished(Head(graphics_queue).slot)}
              /\ render_finished_semaphores[Head(graphics_queue).slot]
              /\ \A k \in 1..Len(graphics_queue) :
                    graphics_queue[k].tick = Head(graphics_queue).tick
                       => graphics_queue[k].kind # "render" ]_vars

\* frames of several ticks have been rendered and presented and nothing is
\* left to execute
C17_Witness ==
    /\ tick >= 3
    /\ Last(ops) = "queue_present:Ok(false)"
    /\ graphics_queue = <<>>
    /\ pending_acquires = {}
    /\ \A sl \in DOMAIN render_finished_semaphores :
          /\ ~ render_finished_semaphores[sl]
          /\ ~ image_available_semaphores[sl]

\* calls in which the host waits for the device
BlockingCalls == {"wait_for_fences", "device_wait_idle", "queue_wait_idle"}

\* C18: a call that has submitted to the transfer queue goes on to the
\* ownership-acquire and render submissions in the same step, whatever the
\* two queues hold: the calls it makes from the transfer submission to the
\* render submission are queue_submit, queue_submit, the recording of the
\* render pass command buffer, reset_fences and queue_submit, none of which
\* waits for the device.
C18_NoWaitBetweenSubmits ==
    [][ (IsApp /\ IsCallStep /\ transfer_queue' # transfer_queue)
        => \E a \in 1..Len(ops') :
              /\ ops'[a] = "submit_transfer"
              /\ Last(transfer_queue').tick = tick'
              /\ \A b \in (a + 1)..Len(ops') :
                    ops'[b] \notin BlockingCalls
              /\ (NoErrorReported \/ Last(ops') = "queue_present")
                    => /\ SubSeq(ops', a, a + 4) =
                             << "submit_transfer", "submit_take_ownership",
                                "new_render_pass_command_buffer",
                                "reset_fences", "submit_render" >>
                       /\ \E e \in AddedToGraphicsQueue :
                             e.kind = "take_ownership" /\ e.tick = tick'
                       /\ \E e \in AddedToGraphicsQueue :
                             e.kind = "render" /\ e.tick = tick' ]_vars

\* VulkanApp has made all its submissions of five ticks while the device
\* has not yet executed a single transfer
C18_Witness ==
    /\ IsApp
    /\ Len(transfer_queue) = MAX_FRAMES_IN_FLIGHT_APP
    /\ \A t \in 1..MAX_FRAMES_IN_FLIGHT_APP :
          \E k \in 1..Len(graphics_queue) :
             /\ graphics_queue[k].kind = "take_ownership"
             /\ graphics_queue[k].tick = t

\* the host is between two calls of draw_frame and may make another
CallMayStart == pc \in {"idle", "returned"} /\ callsLeft > 0

\* a call with resized = false that gets past the acquire (and then runs
\* to its return, to a recreation or to a panic within the same step)
PastAcquire ==
    /\ DrawFrame(FALSE, RenderDataOf(tick + 1))
    /\ pending_acquires' # pending_acquires
    /\ NoErrorReported

IsDropStep == pc' = "dropped" /\ pc # "dropped"

\* C21: when drop destroys the fences, semaphores, buffers, command pools
\* and swapchain objects, every in-flight fence is signaled and no
\* submission is outstanding on either queue.
C21_NothingOutstandingAtDrop ==
    [][ IsDropStep
        => /\ \A s \in DOMAIN in_flight_fences : in_flight_fences[s]
           /\ graphics_queue = <<>>
           /\ transfer_queue = <<>> ]_vars

\* C22: a recreation of the swapchain leaves both queues, the
\* MAX_FRAMES_IN_FLIGHT fences, the image-available and render-finished
\* semaphores and their states as they were, and does not write
\* current_frame (which changes in that step only by the increment that ends
\* a call whose present was stale); of the renderer's objects only the
\* swapchain, its extent and images, the framebuffers and VulkanBase's
\* command buffers are replaced.
C22_RecreationKeepsSyncObjects ==
    [][ IsRecreateStep
        => /\ syncVars' = syncVars
           /\ VecLen(in_flight_fences') = MAX_FRAMES_IN_FLIGHT
           /\ VecLen(image_available_semaphores') = MAX_FRAMES_IN_FLIGHT
           /\ VecLen(render_finished_semaphores') = MAX_FRAMES_IN_FLIGHT
           /\ queueVars' = queueVars
           /\ cmdBufVars' = cmdBufVars
           /\ bufferVars' = bufferVars
           /\ recreate_from # "present" => current_frame' = current_frame
           /\ recreate_from = "present"
                 => current_frame' =
                       IF result' = <<"Ok">>
                       THEN (current_frame + 1) % MAX_FRAMES_IN_FLIGHT
                       ELSE current_frame ]_vars

\* a resized call that found the second frame slot current has replaced a
\* swapchain of two images by one of three
C22_Witness ==
    /\ resized
    /\ pc = "returned"
    /\ result = <<"Ok">>
    /\ "recreate_swapchain" \in Range(ops)
    /\ current_frame = 1
    /\ swapchain_len = 3

\* the translation by (0, 2, 0), in halves of a unit
TranslationBy020 == Translation(<<0, 4, 0>>)

\* C23: after Square::new(side) and one transform(tr) the matrix of the
\* square is tr and its four vertices are the images under tr of the
\* corners (-side/2, 0, -side/2), (-side/2, 0, side/2), (side/2, 0, side/2),
\* (side/2, 0, -side/2), in that order; the translation by (0, 2, 0) of the
\* unit square gives (-0.5, 2, -0.5), (-0.5, 2, 0.5), (0.5, 2, 0.5),
\* (0.5, 2, -0.5).
C23_SquareTransform ==
    Len(transforms) = 1
    => LET tr == transforms[1]
           corners == << <<0 - side, 0, 0 - side>>, <<0 - side, 0, side>>,
                         <<side, 0, side>>, <<side, 0, 0 - side>> >>
       IN /\ Square_transform_mat(square) = tr
          /\ \A k \in 1..4 :
                \A r \in 1..3 :
                   Square_vertices(square)[k][r] =
                      tr[r][1] * corners[k][1] + tr[r][2] * corners[k][2]
                         + tr[r][3] * corners[k][3] + tr[r][4]
          /\ (side = 1 /\ tr = TranslationBy020)
                => Square_vertices(square) =
                      << <<-1, 4, -1>>, <<-1, 4, 1>>, <<1, 4, 1>>,
                         <<1, 4, -1>> >>

\* the unit square translated by (0, 0, 0.5) after a quarter turn about the
\* x axis: the square stands upright in the plane z = 0.5
C23_Witness ==
    /\ side = 1
    /\ transforms = << Isometry(<<0, 0, 1>>, RotationX) >>
    /\ Square_vertices(square) =
          << <<-1, 1, 1>>, <<-1, -1, 1>>, <<1, -1, 1>>, <<1, 1, 1>> >>

\* the step of the tick a call of draw_frame belongs to: 1 fence wait,
\* 2 image acquire, 3 staging upload, 4 transfer submit, 5 ownership-acquire
\* submit, 6 render submit, 7 present; 0 for the other calls
StepOf(op) ==
    CASE op = "wait_for_fences" -> 1
      [] op \in {"acquire_next_image",
                 "acquire_next_image:ERROR_OUT_OF_DATE_KHR"} -> 2
      [] op \in {"update_graphics_vertex_buffer", "draw_text"} -> 3
      [] op = "submit_transfer" -> 4
      [] op = "submit_take_ownership" -> 5
      [] op = "submit_render" -> 6
      [] op \in PresentCalls -> 7
      [] OTHER -> 0

\* the steps a tick of the renderer has (VulkanBase stages and transfers
\* nothing)
TickSteps == IF IsApp THEN 1..7 ELSE {1, 2, 6, 7}

\* the steps the calls in `done` belong to
StepsIn(done) == {StepOf(done[k]) : k \in 1..Len(done)} \ {0}

\* C24: the calls of one draw_frame come in the order fence wait, image
\* acquire, staging upload, transfer submit, ownership-acquire submit,
\* render submit, present; no step is reached without all the steps before
\* it (a call that is reported an error ends at that step), and a call that
\* acquires an image and is reported no error goes through all of them.
\* Swapchain recreation is entered only after the fence wait of a resized
\* call, after a stale acquire, or after a stale or suboptimal present.
C24_StepsInOrder ==
    [][ IsCallStep
        => /\ \A a, b \in 1..Len(ops') :
                 (a < b /\ StepOf(ops'[a]) > 0 /\ StepOf(ops'[b]) > 0)
                    => StepOf(ops'[a]) <= StepOf(ops'[b])
           /\ \A n \in StepsIn(ops') :
                 {m \in TickSteps : m < n} \subseteq StepsIn(ops')
           /\ StepsIn(ops') \subseteq TickSteps
           /\ (AcquiredInStep /\ NoErrorReported /\ result'[1] # "panic")
                 => StepsIn(ops') = TickSteps
           /\ pc' = "recreate_swapchain"
                 => \/ resized' /\ ops' = <<"wait_for_fences">>
                    \/ /\ ~ resized'
                       /\ Last(ops') = "acquire_next_image:ERROR_OUT_OF_DATE_KHR"
                    \/ ~ resized' /\ Last(ops') \in StalePresents
           /\ pc' # "recreate_swapchain"
                 => /\ ~ resized' \/ ~ NoErrorReported
                    /\ \A k \in 1..Len(ops') :
                          ops'[k] \notin
                             StalePresents \cup
                                {"acquire_next_image:ERROR_OUT_OF_DATE_KHR"}
      ]_vars

\* VulkanApp has gone through all seven steps in a call after the first
C24_Witness ==
    /\ IsApp
    /\ tick >= 2
    /\ pc = "returned"
    /\ ops = Entry \o AppDrawCalls \o <<"queue_present:Ok(false)">>
    /\ StepsIn(ops) = 1..7

\* C25: a call that records the command buffers of an image index for which
\* an earlier call has recorded them allocates none of the four: the slots
\* of the index in transfer_cmd_bufs, ui_draw_cmd_bufs,
\* graphics_draw_cmd_bufs and render_pass_cmd_bufs hold the buffers of the
\* earlier call.
C25_AllocatedOncePerIndex ==
    [][ ( /\ IsApp
          /\ IsCallStep
          /\ "new_render_pass_command_buffer" \in Range(ops')
          /\ graphics_draw_cmd_bufs[image_index'].recorded )
        => /\ ~ allocates(transfer_cmd_bufs[image_index'])
           /\ ~ allocates(ui_draw_cmd_bufs[image_index'])
           /\ ~ allocates(graphics_draw_cmd_bufs[image_index'])
           /\ ~ allocates(render_pass_cmd_bufs[image_index']) ]_vars

\* vector `after` is vector `before` but for its element at index i
OnlyAt(before, after, i) ==
    /\ DOMAIN after = DOMAIN before
    /\ \A k \in DOMAIN before : k # i => after[k] = before[k]

\* C26: a call of draw_frame reads and writes its per-image vectors (the
\* staging and uniform buffers and the command buffers) at the image index
\* the acquire of the call returned and nowhere else, its submissions are
\* for that image and use the transfer-ownership semaphore of that index,
\* and the fence and the image-available and render-finished semaphores it
\* uses are those of the slot current_frame.
C26_PerImageAccessByImageIndex ==
    [][ (IsApp /\ IsCallStep)
        => LET i == image_index' IN
           /\ OnlyAt(ui_uniform_buffers, ui_uniform_buffers', i)
           /\ OnlyAt(graphics_staging_vertex_buffers,
                     graphics_staging_vertex_buffers', i)
           /\ OnlyAt(ui_staging_vertex_buffers, ui_staging_vertex_buffers', i)
           /\ OnlyAt(ui_draw_cmd_bufs, ui_draw_cmd_bufs', i)
           /\ OnlyAt(graphics_draw_cmd_bufs, graphics_draw_cmd_bufs', i)
           /\ OnlyAt(render_pass_cmd_bufs, render_pass_cmd_bufs', i)
           /\ OnlyAt(transfer_cmd_bufs, transfer_cmd_bufs', i)
           /\ OnlyAt(in_flight_fences, in_flight_fences', current_frame)
           /\ \A e \in AddedToGraphicsQueue :
                 /\ e.img = i
                 /\ \A sem \in e.wait \cup e.signal :
                       /\ sem[1] = "transfer_ownership" => sem[2] = i
                       /\ sem[1] \in {"image_available", "render_finished"}
                             => sem[2] = current_frame
                 /\ e.fence \in {NullFence, current_frame}
           /\ \A k \in (Len(transfer_queue) + 1)..Len(transfer_queue') :
                 /\ transfer_queue'[k].img = i
                 /\ transfer_queue'[k].signal = {TransferOwnership(i)} ]_vars

\* C27: whenever a call of draw_frame may start, the objects built after
\* create_swapchain with self.swapchain_extent (the framebuffers, which
\* stand for the render pass, the pipelines and the attachment images built
\* by the same sequence of calls, and VulkanBase's command buffers) have the
\* extent of the swapchain, and there is one framebuffer per swapchain image.
C27_DependentsHaveSwapchainExtent ==
    pc \in {"idle", "returned"}
    => /\ DOMAIN swapchain_framebuffers = DOMAIN swapchain_images
       /\ \A i \in DOMAIN swapchain_framebuffers :
             swapchain_framebuffers[i] = swapchain_extent
       /\ \A i \in DOMAIN command_buffers :
             command_buffers[i] = swapchain_extent

\* C28: the image count create_swapchain asks for is min_image_count + 1,
\* and it is max_image_count instead exactly when max_image_count is not 0
\* and is less than min_image_count + 1.
C28_ImageCountRequested ==
    LET caps == surface_capabilities
        lowered == /\ caps.max_image_count # 0
                   /\ caps.max_image_count < caps.min_image_count + 1
    IN /\ lowered => swapchain_ci.min_image_count = caps.max_image_count
       /\ ~ lowered
             => swapchain_ci.min_image_count = caps.min_image_count + 1

\* a surface with at least and at most three images was asked for three
C28_Witness ==
    /\ ops = <<"create_swapchain">>
    /\ surface_capabilities.min_image_count = 3
    /\ surface_capabilities.max_image_count = 3
    /\ swapchain_ci.min_image_count = 3

\* C29: the extent create_swapchain asks for is the current extent of the
\* capabilities when they report a fixed one, and otherwise the requested
\* width and height, each raised to the minimum or lowered to the maximum
\* image extent when it lies outside them.
C29_ExtentChosen ==
    LET caps == surface_capabilities
        e == swapchain_ci.image_extent
    IN /\ swapchain_extent = e
       /\ caps.current_extent # UndefinedExtent => e = caps.current_extent
       /\ caps.current_extent = UndefinedExtent
             => \A d \in {1, 2} :
                   /\ screen[d] < caps.min_image_extent[d]
                         => e[d] = caps.min_image_extent[d]
                   /\ screen[d] > caps.max_image_extent[d]
                         => e[d] = caps.max_image_extent[d]
                   /\ ( /\ screen[d] >= caps.min_image_extent[d]
                        /\ screen[d] <= caps.max_image_extent[d] )
                         => e[d] = screen[d]

\* a surface whose extent is fixed at 640x480 got that extent for a window
\* of 1024x768, which lies within the range of extents
C29_Witness ==
    /\ ops = <<"create_swapchain">>
    /\ surface_capabilities.current_extent = <<640, 480>>
    /\ surface_capabilities.max_image_extent = <<4096, 4096>>
    /\ screen = <<1024, 768>>
    /\ swapchain_ci.image_extent = <<640, 480>>

\* C30: the present mode create_swapchain asks for is MAILBOX when the
\* surface supports it and FIFO when it does not.
C30_MailboxPreferred ==
    swapchain_ci.present_mode =
       IF "MAILBOX" \in present_modes THEN "MAILBOX" ELSE "FIFO"

\* C31: when the surface reports no format, create_swapchain returns the
\* error SurfaceUnsupportedError to its caller, without a panic and without
\* a default format; when the first reported format is UNDEFINED, the
\* format used is the fixed default B8G8R8_UNORM with the reported color
\* space.
C31_NoFormatIsAnError ==
    ops = <<"create_swapchain">> =>
        /\ surface_formats = <<>> =>
              /\ pc # "panicked"
              /\ result = <<"Err", "SurfaceUnsupportedError">>
        /\ (surface_formats # <<>> /\ surface_formats[1].format = "UNDEFINED")
              => surface_format =
                    [format |-> "B8G8R8_UNORM",
                     color_space |-> surface_formats[1].color_space]

\* a render submission that will signal fence s is still queued
FenceAttached(s) ==
    \E k \in 1..Len(graphics_queue) :
        graphics_queue[k].kind = "render" /\ graphics_queue[k].fence = s

\* C32: whenever draw_frame has returned, with Ok or with Err, every
\* in-flight fence, and so the fence of the slot the next call waits on, is
\* signaled or attached to a queued submission that signals it: the fence
\* wait of the next call and the wait on all fences in Drop terminate.
C32_FencesSignaledOrAttached ==
    result[1] \in {"Ok", "Err"} =>
        \A s \in DOMAIN in_flight_fences :
            in_flight_fences[s] \/ FenceAttached(s)

\* the binary semaphores of the renderer
Semaphores ==
    {ImageAvailable(k) : k \in DOMAIN image_available_semaphores}
       \cup {RenderFinished(k) : k \in DOMAIN render_finished_semaphores}
       \cup {TransferOwnership(k) : k \in DOMAIN transfer_ownership_semaphores}
       \cup (IF IsApp THEN {PushSemaphore} ELSE {})

Queued == graphics_queue \o transfer_queue

\* signals of semaphore s that are held or still to come: the signal it
\* holds, the queued submissions that signal it and the acquires it was
\* passed to
SignalsOf(s) ==
    (IF SemSignaled(s) THEN 1 ELSE 0)
       + Cardinality({k \in 1..Len(Queued) : s \in Queued[k].signal})
       + Cardinality({p \in pending_acquires :
                        s = ImageAvailable(p.slot)})

\* queued submissions that wait on semaphore s
WaitsOf(s) == Cardinality({k \in 1..Len(Queued) : s \in Queued[k].wait})

\* every call of draw_frame so far has returned Ok
AllCallsOk == errBudget = MaxErrors /\ pc # "panicked"

\* each signal has its wait and each wait its signal, one signal at most
\* being ahead of the waits
SignalsAndWaitsPaired ==
    \A s \in Semaphores :
        WaitsOf(s) <= SignalsOf(s) /\ SignalsOf(s) <= WaitsOf(s) + 1

\* the step executes the submission at the head of queue q
ExecutesHead(q) == q # <<>> /\ q' = Tail(q)

\* the semaphores the step signals were unsignaled
SignaledWhenUnsignaled ==
    /\ ExecutesHead(graphics_queue) =>
          \A s \in Head(graphics_queue).signal : ~ SemSignaled(s)
    /\ ExecutesHead(transfer_queue) =>
          \A s \in Head(transfer_queue).signal : ~ SemSignaled(s)
    /\ \A p \in pending_acquires \ pending_acquires' :
          ~ image_available_semaphores[p.slot]
    /\ \A p \in pending_acquires' \ pending_acquires :
          /\ ~ image_available_semaphores[p.slot]
          /\ \A q \in pending_acquires : q.slot # p.slot

ErrAfterAcquire ==
    /\ result[1] = "Err"
    /\ Len(ops) >= 3
    /\ ops[2] = "acquire_next_image"

\* C34: when draw_frame returns Err after it has acquired an image, every
\* semaphore signaled or queued to be signaled has its wait submitted too,
\* and no later call passes to an acquire a semaphore that holds or is to
\* receive a signal no wait consumes.
C34_ErrLeavesSemaphoresPaired ==
    /\ [](ErrAfterAcquire =>
             \A s \in Semaphores : SignalsOf(s) <= WaitsOf(s))
    /\ [][ \A p \in pending_acquires' \ pending_acquires :
              SignalsOf(ImageAvailable(p.slot)) <= WaitsOf(ImageAvailable(p.slot))
         ]_vars

\* the step ends a call of draw_frame, by its return or by a panic
CallEnds == (IsCallStep \/ IsRecreateStep) /\ pc' # "recreate_swapchain"

\* the call that ends has handed an image to queue_present_khr, which
\* reported a success or a stale swapchain, and no other error was reported
PresentedWithoutError ==
    /\ result' = <<"Ok">>
    /\ \E k \in 1..Len(ops') :
          ops'[k] \in {"queue_present:Ok(false)"} \cup StalePresents

\* C35: current_frame lies in 0..MAX_FRAMES_IN_FLIGHT-1; a call of
\* draw_frame advances it by one modulo MAX_FRAMES_IN_FLIGHT when the call
\* reached the present request and no error other than a stale swapchain
\* was reported, a recreation triggered by the present included; resized
\* calls, calls with a stale acquire and calls that return Err leave it as
\* it is, as does everything between two calls.
C35_CurrentFrameInRange ==
    /\ [](current_frame \in 0..(MAX_FRAMES_IN_FLIGHT - 1))
    /\ [][ current_frame' =
              IF CallEnds /\ PresentedWithoutError
              THEN (current_frame + 1) % MAX_FRAMES_IN_FLIGHT
              ELSE current_frame ]_vars
    /\ [][ (CallEnds /\ (resized' \/ result'[1] = "Err"
                           \/ "acquire_next_image:ERROR_OUT_OF_DATE_KHR"
                                 \in Range(ops')))
              => current_frame' = current_frame ]_vars

\* a call whose present found the swapchain stale has recreated it and
\* returned Ok in the last frame slot, and current_frame is 0 again
C35_Witness ==
    /\ pc = "returned"
    /\ result = <<"Ok">>
    /\ \E k \in 1..Len(ops) : ops[k] \in StalePresents
    /\ tick = MAX_FRAMES_IN_FLIGHT
    /\ current_frame = 0

\* C36: in VulkanApp, after drawing calls with no recreation among them,
\* every per-image collection has exactly swapchain_len elements, and the
\* entries of the image index just drawn hold the command buffers recorded
\* for that index.
C36_PerImageVectorsKeepLength ==
    ( /\ IsApp
      /\ staleBudget = MaxStale
      /\ pc = "returned"
      /\ result = <<"Ok">>
      /\ Last(ops) = "queue_present:Ok(false)" )
    => /\ \A k \in 1..Len(PerImageLengths) :
             PerImageLengths[k] = swapchain_len
       /\ transfer_cmd_bufs[image_index].recorded
       /\ transfer_cmd_bufs[image_index].index = image_index
       /\ render_pass_cmd_bufs[image_index].recorded
       /\ graphics_draw_cmd_bufs[image_index].recorded
       /\ ui_draw_cmd_bufs[image_index].recorded

\* the Resized events among the events polled in the iteration of the step
ResizedPolled == {k \in 1..Len(polled') : polled'[k] = "Resized"}

IsIteration == iterations' = iterations + 1

\* C37: in VulkanBase::start the first Resized event ever polled does not
\* set the flag; each iteration calls draw_frame exactly once, with resized
\* = true exactly when a Resized event other than that first one was polled
\* in the same iteration, whatever the flag was in the iteration before;
\* the loop ends only once an Escape key event or a close request has been
\* polled.
C37_StartLoop ==
    /\ [][ /\ IsIteration <=> tick' = tick + 1
           /\ tick' \in {tick, tick + 1}
           /\ IsIteration =>
                 resized' =
                    (Cardinality(ResizedPolled)
                        > (IF resized_seen THEN 0 ELSE 1))
           /\ (IsIteration /\ ~ resized_seen
                  /\ Cardinality(ResizedPolled) = 1) => ~ resized'
         ]_vars
    /\ [](~ running => quit_polled)

\* the second iteration polled a Resized event, the first ever, after a
\* key other than Escape, and draw_frame was called with resized = false
C37_Witness ==
    /\ iterations = 2
    /\ tick = 2
    /\ polled = <<"Key(Other)", "Resized">>
    /\ ~ just_started
    /\ ~ resized
    /\ running

IsRun == runs' = runs + 1

\* C38: after each run of AABBComponentSystem every entity that has both a
\* geometry and a transform has an AABBComponent, equal to the box of its
\* geometry under its current transform.
C38_BoxesFollowTransforms ==
    [][ IsRun =>
          \A e \in Entities :
             (geom_storage'[e] # <<>> /\ transform_storage'[e] # <<>>)
                => aabb_storage'[e] =
                      <<aabb(geom_storage'[e][1], transform_storage'[e][1])>>
      ]_vars

\* C39: AABBComponentSystem::run never panics: every entity reached by the
\* loop over the modified entities has an AABBComponent.
C39_RunNeverPanics == run_result # "panicked"

====
